---- MODULE Spec2Model ----
(***************************************************************************)
(* Hourly battery state simulator (Config.py) and Monte Carlo LCOE engine  *)
(* (pybamm_simulation_monte_carlo.py, Graphics.py).                         *)
(*                                                                         *)
(* The scripts compute in IEEE-754 binary64 (Python float / numpy          *)
(* float64).  The model keeps that arithmetic: a number is a record        *)
(*   [k, s, m, e]   k = "fin" | "inf" | "nan",  s = 1 for negative,         *)
(* whose value is m * 2^e, with m a natural number of exactly MantBits     *)
(* bits held as a little-endian sequence of base-2^15 digits (<<>> for     *)
(* zero).  Every operation rounds to nearest, ties to even, as the         *)
(* hardware does.  Exponent overflow and subnormals are not modelled: no   *)
(* value of these programs comes near either range.                        *)
(***************************************************************************)
EXTENDS Integers, Sequences, FiniteSets, TLC

\* ------------------------------------------------------------------------
\* Natural numbers of arbitrary size: little-endian digits in base 2^15
\* ------------------------------------------------------------------------

DigitBits == 15

BASE == 2^DigitBits

MantBits == 53

Min(a, b) == IF a <= b THEN a ELSE b

Max(a, b) == IF a >= b THEN a ELSE b

\* a without its leading zero digits
RECURSIVE BNorm(_)
BNorm(a) ==
    IF Len(a) = 0 THEN <<>>
    ELSE IF a[Len(a)] = 0 THEN BNorm(SubSeq(a, 1, Len(a) - 1))
    ELSE SubSeq(a, 1, Len(a))

RECURSIVE BFromNat(_)
BFromNat(n) == IF n = 0 THEN <<>> ELSE <<n % BASE>> \o BFromNat(n \div BASE)

RECURSIVE BCmpAt(_, _, _)
BCmpAt(a, b, j) ==
    IF j = 0 THEN 0
    ELSE IF a[j] < b[j] THEN -1
    ELSE IF a[j] > b[j] THEN 1
    ELSE BCmpAt(a, b, j - 1)

\* -1, 0, 1 as a < b, a = b, a > b (both without leading zero digits)
BCmp(a, b) ==
    IF Len(a) < Len(b) THEN -1
    ELSE IF Len(a) > Len(b) THEN 1
    ELSE BCmpAt(a, b, Len(a))

Digit(a, j) == IF j >= 1 /\ j <= Len(a) THEN a[j] ELSE 0

\* the carry into position j of the digit sums s (each below 2 * BASE - 1)
RECURSIVE CarryInto(_, _)
CarryInto(s, j) ==
    IF j = 1 THEN 0
    ELSE IF s[j - 1] >= BASE THEN 1
    ELSE IF s[j - 1] = BASE - 1 THEN CarryInto(s, j - 1)
    ELSE 0

\* the number whose digit sums are s (the top entry of s is 0)
BCarry(s) == BNorm([j \in 1..Len(s) |-> (s[j] + CarryInto(s, j)) % BASE])

BAdd(a, b) ==
    BCarry([j \in 1..(Max(Len(a), Len(b)) + 1) |-> Digit(a, j) + Digit(b, j)])

\* the borrow into position j of the digit differences d
RECURSIVE BorrowInto(_, _)
BorrowInto(d, j) ==
    IF j = 1 THEN 0
    ELSE IF d[j - 1] < 0 THEN 1
    ELSE IF d[j - 1] = 0 THEN BorrowInto(d, j - 1)
    ELSE 0

BBorrow(d) == BNorm([j \in 1..Len(d) |-> (d[j] - BorrowInto(d, j) + BASE) % BASE])

\* a - b for a >= b
BSub(a, b) == BBorrow([j \in 1..Len(a) |-> a[j] - Digit(b, j)])

\* a * k for 0 <= k < BASE
BMulSmall(a, k) ==
    IF k = 0 THEN <<>>
    ELSE BCarry([j \in 1..(Len(a) + 2) |->
                    ((Digit(a, j) * k) % BASE) + ((Digit(a, j - 1) * k) \div BASE)])

Zeros(n) == [j \in 1..n |-> 0]

\* the sum of the rows a * b[j] * BASE^(j - 1) for lo <= j <= hi
RECURSIVE BMulRows(_, _, _, _)
BMulRows(a, b, lo, hi) ==
    IF lo = hi
    THEN (IF b[lo] = 0 THEN <<>> ELSE Zeros(lo - 1) \o BMulSmall(a, b[lo]))
    ELSE BAdd(BMulRows(a, b, lo, (lo + hi) \div 2),
              BMulRows(a, b, ((lo + hi) \div 2) + 1, hi))

\* a * b, one shifted row for each digit of the shorter operand
BMul(a, b) ==
    IF a = <<>> \/ b = <<>> THEN <<>>
    ELSE IF Len(a) >= Len(b) THEN BMulRows(a, b, 1, Len(b))
    ELSE BMulRows(b, a, 1, Len(a))

\* a * 2^n
BShl(a, n) ==
    IF a = <<>> THEN <<>>
    ELSE Zeros(n \div DigitBits) \o BMulSmall(a, 2^(n % DigitBits))

\* floor(a / 2^n)
BShr(a, n) ==
    IF n \div DigitBits >= Len(a) THEN <<>>
    ELSE BNorm([j \in 1..(Len(a) - (n \div DigitBits)) |->
                   (a[j + (n \div DigitBits)] \div 2^(n % DigitBits))
                   + (Digit(a, j + (n \div DigitBits) + 1) % 2^(n % DigitBits))
                     * 2^(DigitBits - (n % DigitBits))])

IntBitLen(x) == CHOOSE n \in 0..DigitBits : (n = 0 \/ 2^(n - 1) <= x) /\ x < 2^n

BBitLen(a) ==
    IF a = <<>> THEN 0 ELSE DigitBits * (Len(a) - 1) + IntBitLen(a[Len(a)])

\* bit n (0 = least significant) of a
BBit(a, n) ==
    IF (n \div DigitBits) + 1 > Len(a) THEN 0
    ELSE (a[(n \div DigitBits) + 1] \div 2^(n % DigitBits)) % 2

\* some bit below bit n of a is set
BTestLow(a, n) ==
    \/ \E j \in 1..Min(n \div DigitBits, Len(a)) : a[j] # 0
    \/ /\ (n \div DigitBits) + 1 <= Len(a)
       /\ a[(n \div DigitBits) + 1] % 2^(n % DigitBits) # 0

RECURSIVE QFix(_, _, _)
QFix(R, D, q) == IF BCmp(BMulSmall(D, q), R) > 0 THEN QFix(R, D, q - 1) ELSE q

\* the next quotient digit of R / D, for R < D * BASE
QDigit(R, D) ==
    IF Len(R) < Len(D) THEN 0
    ELSE LET n   == Len(D)
             top == IF Len(R) > n THEN R[n + 1] * BASE + R[n] ELSE R[n]
         IN  QFix(R, D, Min(BASE - 1, top \div D[n]))

RECURSIVE BDivStep(_, _, _, _, _)
\* long division, most significant digit first: N's digits j..1 are left,
\* R is the remainder so far and Q the quotient digits so far
BDivStep(N, D, j, R, Q) ==
    IF j = 0 THEN [q |-> Q, r |-> R]
    ELSE LET R1 == BNorm(<<N[j]>> \o R)
             qd == QDigit(R1, D)
             R2 == BSub(R1, BMulSmall(D, qd))
         IN  IF R2 = <<>> /\ \A t \in 1..(j - 1) : N[t] = 0
             THEN [q |-> Zeros(j - 1) \o <<qd>> \o Q, r |-> <<>>]
             ELSE BDivStep(N, D, j - 1, R2, <<qd>> \o Q)

\* [q |-> floor(N / D), r |-> (N mod D) * 2^sh] for D # 0 (schoolbook long
\* division on operands shifted so that the divisor's top digit is full)
BDivMod(N, D) ==
    LET sh  == DigitBits - IntBitLen(D[Len(D)])
        Nn  == BShl(N, sh)
        res == BDivStep(Nn, BShl(D, sh), Len(Nn), <<>>, <<>>)
    IN  [q |-> BNorm(res.q), r |-> res.r]

\* ------------------------------------------------------------------------
\* binary64 values and operations (round to nearest, ties to even)
\* ------------------------------------------------------------------------

FZero == [k |-> "fin", s |-> 0, m |-> <<>>, e |-> 0]

FNaN == [k |-> "nan", s |-> 0, m |-> <<>>, e |-> 0]

FInf(sg) == [k |-> "inf", s |-> sg, m |-> <<>>, e |-> 0]

IsNaN(x) == x.k = "nan"

IsFinite(x) == x.k = "fin"

IsZero(x) == x.k = "fin" /\ x.m = <<>>

\* the binary64 nearest to (-1)^sg * M * 2^ex; st: the exact value has
\* further nonzero bits below M's last bit
FRound(sg, M, ex, st) ==
    IF M = <<>> THEN FZero
    ELSE LET L == BBitLen(M) IN
         IF L <= MantBits
         THEN [k |-> "fin", s |-> sg, m |-> BShl(M, MantBits - L),
               e |-> ex - (MantBits - L)]
         ELSE LET sh   == L - MantBits
                  q    == BShr(M, sh)
                  half == BBit(M, sh - 1) = 1
                  low  == BTestLow(M, sh - 1) \/ st
                  up   == half /\ (low \/ BBit(q, 0) = 1)
                  q1   == IF up THEN BAdd(q, <<1>>) ELSE q
              IN  IF BBitLen(q1) > MantBits
                  THEN [k |-> "fin", s |-> sg, m |-> BShr(q1, 1), e |-> ex + sh + 1]
                  ELSE [k |-> "fin", s |-> sg, m |-> q1, e |-> ex + sh]

\* the binary64 of an integer
FInt(n) == FRound(IF n < 0 THEN 1 ELSE 0, BFromNat(IF n < 0 THEN -n ELSE n), 0, FALSE)

FNeg(x) == IF IsNaN(x) \/ IsZero(x) THEN x ELSE [x EXCEPT !.s = 1 - x.s]

FAbs(x) == [x EXCEPT !.s = 0]

\* -1, 0, 1 for the magnitudes of two nonzero finite values
MagCmp(a, b) ==
    IF a.e < b.e THEN -1 ELSE IF a.e > b.e THEN 1 ELSE BCmp(a.m, b.m)

\* a < b (false when either is NaN)
FLt(a, b) ==
    IF IsNaN(a) \/ IsNaN(b) THEN FALSE
    ELSE IF a = b THEN FALSE
    ELSE IF a.k = "inf" THEN a.s = 1
    ELSE IF b.k = "inf" THEN b.s = 0
    ELSE IF IsZero(a) THEN b.s = 0
    ELSE IF IsZero(b) THEN a.s = 1
    ELSE IF a.s # b.s THEN a.s = 1
    ELSE IF a.s = 0 THEN MagCmp(a, b) < 0
    ELSE MagCmp(a, b) > 0

FGt(a, b) == FLt(b, a)

FLe(a, b) == ~IsNaN(a) /\ ~IsNaN(b) /\ ~FLt(b, a)

FGe(a, b) == FLe(b, a)

FAdd(a, b) ==
    IF IsNaN(a) \/ IsNaN(b) THEN FNaN
    ELSE IF a.k = "inf" THEN (IF b.k = "inf" /\ b.s # a.s THEN FNaN ELSE a)
    ELSE IF b.k = "inf" THEN b
    ELSE IF IsZero(a) THEN b
    ELSE IF IsZero(b) THEN a
    ELSE LET lo == Min(a.e, b.e)
             A  == BShl(a.m, a.e - lo)
             B  == BShl(b.m, b.e - lo)
             c  == BCmp(A, B)
         IN  IF a.s = b.s THEN FRound(a.s, BAdd(A, B), lo, FALSE)
             ELSE IF c = 0 THEN FZero
             ELSE IF c > 0 THEN FRound(a.s, BSub(A, B), lo, FALSE)
             ELSE FRound(b.s, BSub(B, A), lo, FALSE)

FSub(a, b) == FAdd(a, FNeg(b))

FMul(a, b) ==
    IF IsNaN(a) \/ IsNaN(b) THEN FNaN
    ELSE IF a.k = "inf" \/ b.k = "inf"
         THEN (IF IsZero(a) \/ IsZero(b) THEN FNaN ELSE FInf((a.s + b.s) % 2))
    ELSE IF IsZero(a) \/ IsZero(b) THEN FZero
    ELSE FRound((a.s + b.s) % 2, BMul(a.m, b.m), a.e + b.e, FALSE)

\* numpy float64 division: x / 0 is inf, 0 / 0 is nan, with a warning only
FDiv(a, b) ==
    IF IsNaN(a) \/ IsNaN(b) THEN FNaN
    ELSE IF a.k = "inf" THEN (IF b.k = "inf" THEN FNaN ELSE FInf((a.s + b.s) % 2))
    ELSE IF b.k = "inf" THEN FZero
    ELSE IF IsZero(b) THEN (IF IsZero(a) THEN FNaN ELSE FInf(a.s))
    ELSE IF IsZero(a) THEN FZero
    ELSE LET d == BDivMod(BShl(a.m, 4 * DigitBits), b.m)
         IN  FRound((a.s + b.s) % 2, d.q, a.e - b.e - 4 * DigitBits, d.r # <<>>)

\* a % b for finite a >= 0 and b > 0: the exact remainder
FMod(a, b) ==
    IF IsZero(a) THEN FZero
    ELSE LET lo == Min(a.e, b.e)
             A  == BShl(a.m, a.e - lo)
             B  == BShl(b.m, b.e - lo)
             d  == BDivMod(A, B)
         IN  FRound(0, BSub(A, BMul(d.q, B)), lo, FALSE)

\* the binary64 of the decimal literal n / d (d a power of ten)
FDec(n, d) == FDiv(FInt(n), FInt(d))

\* np.clip(x, lo, hi) = minimum(maximum(x, lo), hi); NaN stays NaN
FClip(x, lo, hi) ==
    IF IsNaN(x) THEN FNaN
    ELSE IF FLt(x, lo) THEN lo
    ELSE IF FGt(x, hi) THEN hi
    ELSE x

\* Python's max(a, b): b if b > a, else a
PyMax(a, b) == IF FGt(b, a) THEN b ELSE a

\* the value of a one-element set: Only({f(v) : v \in {e}}) is f(e), with e
\* evaluated once
Only(S) == CHOOSE v \in S : TRUE

\* the literals of Config.py
F_0 == FInt(0)

F_1 == FInt(1)

F_100 == FInt(100)

F_200 == FInt(200)

\* np.maximum(a, b) and np.minimum(a, b): NaN if either is NaN
NpMaximum(a, b) ==
    IF IsNaN(a) \/ IsNaN(b) THEN FNaN ELSE IF FGe(a, b) THEN a ELSE b

NpMinimum(a, b) ==
    IF IsNaN(a) \/ IsNaN(b) THEN FNaN ELSE IF FLe(a, b) THEN a ELSE b

\* <<m^1, ..., m^n>>, exactly
RECURSIVE BPowers(_, _)
BPowers(m, n) ==
    IF n = 0 THEN <<>>
    ELSE IF n = 1 THEN <<m>>
    ELSE Only({Append(p, BMul(p[n - 1], m)) : p \in {BPowers(m, n - 1)}})

\* x ** <<1, ..., n>> for a finite x > 0 (numpy's power ufunc over an integer
\* range), each element taken as the correctly rounded power
NpPowerRange(x, n) ==
    Only({SubSeq([y \in 1..n |-> FRound(0, p[y], x.e * y, FALSE)], 1, n) :
             p \in {BPowers(x.m, n)}})

\* x ** n for a finite x > 0 and an integer n >= 1
FPow(x, n) == NpPowerRange(x, n)[n]

\* a[from] + ... + a[to] added to acc, left to right
RECURSIVE SumFrom(_, _, _, _)
SumFrom(a, from, to, acc) ==
    IF from > to THEN acc
    ELSE Only({SumFrom(a, from + 1, to, next) : next \in {FAdd(acc, a[from])}})

\* a[j] + a[j + 8] + a[j + 16] + ... over the indices <= last
RECURSIVE LaneSum(_, _, _, _)
LaneSum(a, j, last, acc) ==
    IF j > last THEN acc
    ELSE Only({LaneSum(a, j + 8, last, next) : next \in {FAdd(acc, a[j])}})

\* np.sum of a float64 vector of at most 128 elements: numpy's pairwise sum,
\* which below 8 elements adds left to right and otherwise adds into 8 lanes,
\* combines the lanes in pairs and then adds the elements left over
NpSum(a) ==
    IF Len(a) < 8 THEN SumFrom(a, 1, Len(a), F_0)
    ELSE LET last == Len(a) - (Len(a) % 8)
         IN  Only({SumFrom(a, last + 1, Len(a), res) :
                       res \in {Only({FAdd(q1, q2) :
                                         q1 \in {FAdd(FAdd(r[1], r[2]), FAdd(r[3], r[4]))},
                                         q2 \in {FAdd(FAdd(r[5], r[6]), FAdd(r[7], r[8]))}}) :
                                    r \in {[j \in 1..8 |-> LaneSum(a, j + 8, last, a[j])]}}})

\* ------------------------------------------------------------------------
\* sqrt, log and exp: fixed-point numbers are naturals in units of 2^-FixBits
\* ------------------------------------------------------------------------

FixBits == 90

FixOne == BShl(<<1>>, FixBits)

FixMul(a, b) == BShr(BMul(a, b), FixBits)

FixDiv(a, b) == BDivMod(BShl(a, FixBits), b).q

\* floor(sqrt(N)) by Newton's iteration from a guess r >= sqrt(N)
RECURSIVE BSqrtFrom(_, _)
BSqrtFrom(N, r) ==
    Only({IF BCmp(next, r) < 0 THEN BSqrtFrom(N, next) ELSE r :
             next \in {BShr(BAdd(r, BDivMod(N, r).q), 1)}})

BSqrt(N) == IF N = <<>> THEN <<>> ELSE BSqrtFrom(N, BShl(<<1>>, (BBitLen(N) + 1) \div 2))

\* the correctly rounded square root of N * 2^(2 * half)
FSqrtOf(N, half) ==
    Only({FRound(0, r, half, BMul(r, r) # N) : r \in {BSqrt(N)}})

\* np.sqrt of x: correctly rounded
FSqrt(x) ==
    IF IsNaN(x) THEN FNaN
    ELSE IF IsZero(x) THEN FZero
    ELSE IF x.s = 1 THEN FNaN
    ELSE IF x.k = "inf" THEN x
    ELSE IF x.e % 2 = 0 THEN FSqrtOf(BShl(x.m, 60), (x.e - 60) \div 2)
    ELSE FSqrtOf(BShl(x.m, 61), (x.e - 61) \div 2)

\* t + t^3/3 + t^5/5 + ... from the term t^n on (power = t^n, t2 = t^2)
RECURSIVE AtanhFrom(_, _, _, _)
AtanhFrom(t2, power, n, acc) ==
    IF power = <<>> THEN acc
    ELSE Only({AtanhFrom(t2, FixMul(power, t2), n + 2, next) :
                  next \in {BAdd(acc, BDivMod(power, <<n>>).q)}})

\* ln(a / b) for naturals a >= b > 0 with a < 3 * b, as 2 * atanh((a - b) / (a + b))
FixLnRatio(a, b) ==
    Only({BShl(AtanhFrom(FixMul(t, t), t, 1, <<>>), 1) :
             t \in {BDivMod(BShl(BSub(a, b), FixBits), BAdd(a, b)).q}})

FixLn2 == FixLnRatio(<<2>>, <<1>>)

\* np.log of a finite x >= 1: E * ln 2 + ln(m) for x = m * 2^E, 1 <= m < 2,
\* taken as the correctly rounded logarithm
FLog(x) ==
    IF x = F_1 THEN FZero
    ELSE Only({FRound(0, v, -FixBits, TRUE) :
                  v \in {BAdd(BMul(FixLn2, BFromNat(x.e + MantBits - 1)),
                              FixLnRatio(x.m, BShl(<<1>>, MantBits - 1)))}})

\* 1 + r + r^2/2! + ... from the term r^n/n! on
RECURSIVE ExpFrom(_, _, _, _)
ExpFrom(r, term, n, acc) ==
    IF term = <<>> THEN acc
    ELSE Only({ExpFrom(r, BDivMod(FixMul(term, r), <<n + 1>>).q, n + 1, next) :
                  next \in {BAdd(acc, term)}})

\* the fixed-point value of a finite y >= 0 below 2^15 (rounded down)
FixOf(y) ==
    IF IsZero(y) THEN <<>>
    ELSE IF y.e + FixBits >= 0 THEN BShl(y.m, y.e + FixBits)
    ELSE BShr(y.m, -(y.e + FixBits))

\* np.exp of a finite y >= 0: 2^k * exp(r) for y = k * ln 2 + r, 0 <= r < ln 2,
\* taken as the correctly rounded exponential
FExp(y) ==
    IF IsZero(y) THEN F_1
    ELSE Only({FRound(0, ExpFrom(BSub(FixOf(y), BMul(k, FixLn2)), FixOne, 0, <<>>),
                      (IF k = <<>> THEN 0 ELSE k[1]) - FixBits, TRUE) :
                  k \in {BDivMod(FixOf(y), FixLn2).q}})

\* a float64 vector given by its elements
Vector(f, n) == SubSeq(f, 1, n)

\* ------------------------------------------------------------------------
\* pybamm_simulation_monte_carlo.py and Graphics.py: model premises
\* ------------------------------------------------------------------------

PROJECT_LIFETIME_YEARS == 25

NOMINAL_CAPACITY_KWH == FDec(388, 10)

N_ITERATIONS == 10000

BASE_CAPEX_PER_KWH == FInt(200)

BASE_DISCOUNT_RATE == FDec(8, 100)

OPEX_PERCENTAGE == FDec(2, 100)

COST_REDUCTION_RATE == FZero

REPLACEMENT_YEARS == <<10, 20>>

BASE_ANNUAL_ENERGY == FMul(FDec(582, 100), FInt(365))

\* the end-of-life relative SoH, 0.875
SOH_EOL == FDec(875, 1000)

\* relative_soh_y of year y
RelativeSohOfYear(y) ==
    FSub(F_1, FDiv(FMul(FSub(F_1, SOH_EOL), FInt(((y - 1) % 10) + 1)), FInt(10)))

RELATIVE_SOH_CURVE == Vector([y \in 1..PROJECT_LIFETIME_YEARS |-> RelativeSohOfYear(y)],
                             PROJECT_LIFETIME_YEARS)

RELATIVE_SOH_FRACTION ==
    Vector([y \in 1..PROJECT_LIFETIME_YEARS |-> NpMaximum(RELATIVE_SOH_CURVE[y], SOH_EOL)],
           PROJECT_LIFETIME_YEARS)

get_lognormal_params_median(nominal_value, percent_std) ==
    Only({[mu    |-> FLog(nominal_value),
           sigma |-> Only({FSqrt(l) : l \in {FLog(one_plus)}})] :
             one_plus \in {Only({FAdd(F_1, sq) :
                           sq \in {Only({FPow(cv, 2) :
                              cv \in {Only({FDiv(std_dev_abs, nominal_value) :
                                 std_dev_abs \in {FDiv(FMul(nominal_value,
                                                            FDiv(percent_std, F_100)),
                                                       FInt(2))}})}})}})}})

\* get_lognormal_params(nominal_value, percent_std): [mu, sigma]
get_lognormal_params(nominal_value, percent_std) ==
    Only({[mu    |-> Only({FLog(q) : q \in {Only({FDiv(nominal_value, r) :
                                                      r \in {FSqrt(one_plus)}})}}),
           sigma |-> Only({FSqrt(l) : l \in {FLog(one_plus)}})] :
             one_plus \in {Only({FAdd(F_1, sq) :
                           sq \in {Only({FPow(cv, 2) :
                              cv \in {Only({FDiv(std_dev_abs, nominal_value) :
                                 std_dev_abs \in {FDiv(FMul(nominal_value,
                                                            FDiv(percent_std, F_100)),
                                                       FInt(2))}})}})}})}})

\* ------------------------------------------------------------------------
\* one pass of the Monte Carlo loop
\* ------------------------------------------------------------------------

\* (1 + discount_rate) ** YEARS
CompoundFactors(discount_rate) ==
    Only({NpPowerRange(base, PROJECT_LIFETIME_YEARS) : base \in {FAdd(F_1, discount_rate)}})

DiscountFactors_negated(compound) ==
    Vector([y \in 1..PROJECT_LIFETIME_YEARS |-> FDiv(FNeg(F_1), compound[y])],
           PROJECT_LIFETIME_YEARS)

\* DISCOUNT_FACTORS = 1.0 / (1 + discount_rate) ** YEARS
DiscountFactors(compound) ==
    Vector([y \in 1..PROJECT_LIFETIME_YEARS |-> FDiv(F_1, compound[y])],
           PROJECT_LIFETIME_YEARS)

ClampSohLow_none(soh) == soh

\* the floor of the relative SoH, here np.maximum(..., 0.875)
ClampSohLow(soh) == NpMaximum(soh, SOH_EOL)

\* relative_soh_adjusted
RelativeSohAdjusted(degradation_factor) ==
    Vector([y \in 1..PROJECT_LIFETIME_YEARS |->
               ClampSohLow(NpMinimum(FMul(RELATIVE_SOH_FRACTION[y], degradation_factor), F_1))],
           PROJECT_LIFETIME_YEARS)

\* ANNUAL_ENERGY_KWH * DISCOUNT_FACTORS, element by element
DiscountedEnergy(relative_soh_adjusted, DISCOUNT_FACTORS) ==
    Vector([y \in 1..PROJECT_LIFETIME_YEARS |->
               FMul(FMul(BASE_ANNUAL_ENERGY, relative_soh_adjusted[y]), DISCOUNT_FACTORS[y])],
           PROJECT_LIFETIME_YEARS)

EnergyDeliveredNpv(relative_soh_adjusted, DISCOUNT_FACTORS) ==
    Only({NpSum(v) : v \in {DiscountedEnergy(relative_soh_adjusted, DISCOUNT_FACTORS)}})

CapexInitial_per_kwh(capex_per_kwh) == capex_per_kwh

CapexInitial(capex_per_kwh) == FMul(NOMINAL_CAPACITY_KWH, capex_per_kwh)

OmAnnual_flat(CAPEX_INITIAL, opex_percentage_sample) == opex_percentage_sample

OmAnnual(CAPEX_INITIAL, opex_percentage_sample) ==
    FMul(CAPEX_INITIAL, opex_percentage_sample)

\* OM_ANNUAL * DISCOUNT_FACTORS, element by element
DiscountedOpex(OM_ANNUAL, DISCOUNT_FACTORS) ==
    Vector([y \in 1..PROJECT_LIFETIME_YEARS |-> FMul(OM_ANNUAL, DISCOUNT_FACTORS[y])],
           PROJECT_LIFETIME_YEARS)

NpvOpex(OM_ANNUAL, DISCOUNT_FACTORS) ==
    Only({NpSum(v) : v \in {DiscountedOpex(OM_ANNUAL, DISCOUNT_FACTORS)}})

\* (1 - COST_REDUCTION_RATE) ** y_rep of each replacement year, computed once
CostTrendOf ==
    [y_rep \in {REPLACEMENT_YEARS[k] : k \in 1..Len(REPLACEMENT_YEARS)} |->
        FPow(FSub(F_1, COST_REDUCTION_RATE), y_rep)]

CostTrend(y_rep) == CostTrendOf[y_rep]

CostAtReplacement_nominal(CAPEX_INITIAL, y_rep) ==
    FMul(FMul(NOMINAL_CAPACITY_KWH, BASE_CAPEX_PER_KWH), CostTrend(y_rep))

\* COST_AT_REPLACEMENT
CostAtReplacement(CAPEX_INITIAL, y_rep) ==
    Only({FMul(CAPEX_INITIAL, trend) : trend \in {CostTrend(y_rep)}})

ReplacementNpv_undiscounted(CAPEX_INITIAL, compound, y_rep) ==
    CostAtReplacement(CAPEX_INITIAL, y_rep)

\* COST_AT_REPLACEMENT / (1 + discount_rate) ** y_rep; compound[y_rep] is
\* that power
ReplacementNpv(CAPEX_INITIAL, compound, y_rep) ==
    Only({FDiv(cost, compound[y_rep]) : cost \in {CostAtReplacement(CAPEX_INITIAL, y_rep)}})

\* NPV_REPLACEMENTS after the replacement years k, k + 1, ... are added to acc
RECURSIVE NpvReplacements(_, _, _, _)
NpvReplacements(CAPEX_INITIAL, compound, k, acc) ==
    IF k > Len(REPLACEMENT_YEARS) THEN acc
    ELSE Only({NpvReplacements(CAPEX_INITIAL, compound, k + 1, next) :
                  next \in {Only({FAdd(acc, r) :
                                     r \in {ReplacementNpv(CAPEX_INITIAL, compound,
                                                           REPLACEMENT_YEARS[k])}})}})

TotalCostsNpv_credit(CAPEX_INITIAL, NPV_REPLACEMENTS, NPV_OPEX) ==
    FSub(FSub(NPV_OPEX, NPV_REPLACEMENTS), CAPEX_INITIAL)

TotalCostsNpv(CAPEX_INITIAL, NPV_REPLACEMENTS, NPV_OPEX) ==
    FAdd(FAdd(CAPEX_INITIAL, NPV_REPLACEMENTS), NPV_OPEX)

EnergyValid_negative(ENERGY_DELIVERED_NPV) == FLt(ENERGY_DELIVERED_NPV, F_0)

\* if ENERGY_DELIVERED_NPV > 0
EnergyValid(ENERGY_DELIVERED_NPV) == FGt(ENERGY_DELIVERED_NPV, F_0)

LcoeStorage(TOTAL_COSTS_NPV, ENERGY_DELIVERED_NPV) ==
    FDiv(TOTAL_COSTS_NPV, ENERGY_DELIVERED_NPV)

\* ------------------------------------------------------------------------
\* the nominal (non-sampled) cost structure, lines 136-147
\* ------------------------------------------------------------------------

\* (1 + BASE_DISCOUNT_RATE) ** YEARS
COMPOUND_BASE == CompoundFactors(BASE_DISCOUNT_RATE)

DISCOUNT_FACTORS_BASE == DiscountFactors(COMPOUND_BASE)

\* ANNUAL_ENERGY_KWH_BASE * DISCOUNT_FACTORS_BASE, element by element
DISCOUNTED_ENERGY_BASE ==
    Vector([y \in 1..PROJECT_LIFETIME_YEARS |->
               FMul(FMul(BASE_ANNUAL_ENERGY, RELATIVE_SOH_FRACTION[y]),
                    DISCOUNT_FACTORS_BASE[y])],
           PROJECT_LIFETIME_YEARS)

ENERGY_DELIVERED_NPV_BASE == NpSum(DISCOUNTED_ENERGY_BASE)

\* OPEX_PERCENTAGE * DISCOUNT_FACTORS_BASE, element by element
DISCOUNTED_OPEX_BASE ==
    Vector([y \in 1..PROJECT_LIFETIME_YEARS |->
               FMul(OPEX_PERCENTAGE, DISCOUNT_FACTORS_BASE[y])],
           PROJECT_LIFETIME_YEARS)

FACTOR_OPEX_NPV == NpSum(DISCOUNTED_OPEX_BASE)

\* FACTOR_REPL_NPV after the replacement years k, k + 1, ... are added to acc
RECURSIVE FactorReplNpv(_, _)
FactorReplNpv(k, acc) ==
    IF k > Len(REPLACEMENT_YEARS) THEN acc
    ELSE Only({FactorReplNpv(k + 1, next) :
                  next \in {Only({FAdd(acc, r) :
                      r \in {FDiv(CostTrend(REPLACEMENT_YEARS[k]),
                                  COMPOUND_BASE[REPLACEMENT_YEARS[k]])}})}})

FACTOR_REPL_NPV == FactorReplNpv(1, F_0)

LCC_CAPEX_FACTOR_SUM == FAdd(F_1, FACTOR_OPEX_NPV)

LCC_CAPEX_FACTOR_opex_only == FAdd(F_1, FACTOR_OPEX_NPV)

LCC_CAPEX_FACTOR == FAdd(LCC_CAPEX_FACTOR_SUM, FACTOR_REPL_NPV)

\* LCC_P90 = LCOE_P90 * ENERGY_DELIVERED_NPV_BASE
LccOfLcoe(LCOE_P90) == FMul(LCOE_P90, ENERGY_DELIVERED_NPV_BASE)

\* CAPEX_INITIAL_P90 = LCC_P90 / LCC_CAPEX_FACTOR
CapexOfLcc(LCC_P90) == FDiv(LCC_P90, LCC_CAPEX_FACTOR)

\* CAPEX_PER_KWH_P90 = CAPEX_INITIAL_P90 / NOMINAL_CAPACITY_KWH
CapexPerKwh(CAPEX_INITIAL_P90) == FDiv(CAPEX_INITIAL_P90, NOMINAL_CAPACITY_KWH)

\* ------------------------------------------------------------------------
\* np.mean and np.percentile (method 'linear') of a one-dimensional array
\* ------------------------------------------------------------------------

NpMean(a) == FDiv(NpSum(a), FInt(Len(a)))

\* v put into the ascending sequence a, after the elements not above it
InsertSorted(a, v) ==
    Only({SubSeq(a, 1, n) \o <<v>> \o SubSeq(a, n + 1, Len(a)) :
             n \in {Cardinality({k \in 1..Len(a) : FLe(a[k], v)})}})

NpSort_arrival(a) == a

\* the elements of a in ascending order
RECURSIVE NpSort(_)
NpSort(a) ==
    IF Len(a) <= 1 THEN a
    ELSE InsertSorted(NpSort(SubSeq(a, 1, Len(a) - 1)), a[Len(a)])

\* np.floor of a virtual index in [0, n - 1], as an integer
FloorIndex(x, n) == Max(0, Cardinality({k \in 1..(n - 1) : FLe(FInt(k), x)}))

\* _lerp(a, b, t): a + (b - a) * t, and b - (b - a) * (1 - t) where t >= 0.5
Lerp(a, b, t) ==
    Only({IF FGe(t, FDec(5, 10)) THEN FSub(b, FMul(diff_b_a, FSub(F_1, t)))
          ELSE FAdd(a, FMul(diff_b_a, t)) : diff_b_a \in {FSub(b, a)}})

\* the value at the virtual index (n - 1) * q of the sorted array: the
\* elements on both sides of it, interpolated; from the last element on, the
\* last element
QuantileAt(sorted, virtual_index) ==
    Only({IF previous >= Len(sorted) - 1 THEN sorted[Len(sorted)]
          ELSE Lerp(sorted[previous + 1], sorted[previous + 2],
                    FSub(virtual_index, FInt(previous))) :
          previous \in {FloorIndex(virtual_index, Len(sorted))}})

NpPercentile(a, q) ==
    Only({QuantileAt(NpSort(a), virtual_index) :
          virtual_index \in {FMul(FInt(Len(a) - 1), FDiv(FInt(q), F_100))}})

\* ------------------------------------------------------------------------
\* calculate_lcoe.py, the CAPEX sensitivity analysis of Graphics.py and
\* pybamm_simulation_rev.01py.py: degradation input and cost accumulation
\* ------------------------------------------------------------------------

\* np.interp(x, xp, fp) for one x, xp ascending: the count of points not
\* above x locates the segment
NpInterpAt(x, xp, fp, j) ==
    IF j = 0 THEN fp[1]
    ELSE IF j = Len(xp) THEN fp[Len(xp)]
    ELSE IF xp[j] = x THEN fp[j]
    ELSE Only({FAdd(FMul(slope, FSub(x, xp[j])), fp[j]) :
                  slope \in {FDiv(FSub(fp[j + 1], fp[j]), FSub(xp[j + 1], xp[j]))}})

NpInterp(x, xp, fp) ==
    NpInterpAt(x, xp, fp, Cardinality({k \in 1..Len(xp) : FLe(xp[k], x)}))

\* np.interp(np.arange(1, n + 1), xp, fp)
InterpYears(n, xp, fp) == Vector([y \in 1..n |-> NpInterp(FInt(y), xp, fp)], n)

\* calculate_lcoe.py, lines 9-21
CAPEX_INITIAL_YEAR0 == FInt(7760)

COST_REPLACEMENT == FInt(4400)

DISCOUNT_RATE == FDec(8, 100)

O_M_COST_PCT_OF_CAPEX == FDec(2, 100)

T_TECH_LIFE == FInt(10)

TOTAL_CVP_ARTICLE == FDec(813132, 100)

TOTAL_EVP_KWH == FDec(2189798, 100)

SOH_END_OF_LIFE == FInt(70)

\* Graphics.py, lines 491-501 and 547-554
MAX_DOD_FRACTION == FDec(25, 100)

ROUND_TRIP_EFFICIENCY == FDec(75, 100)

DAILY_USAGE_DAYS == FInt(365)

CAPEX_BASE_PER_KWH == FInt(200)

REPLACEMENT_COSTS_BASE_PER_KWH == FMul(CAPEX_BASE_PER_KWH, FDec(566, 1000))

CAPEX_SCENARIOS ==
    <<FMul(CAPEX_BASE_PER_KWH, FDec(110, 100)), CAPEX_BASE_PER_KWH,
      FMul(CAPEX_BASE_PER_KWH, FDec(90, 100))>>

\* the linear approximation of Graphics.py, lines 513-514
LINEAR_TIME_POINTS == <<F_0, FInt(10), FDec(10001, 1000), FInt(20), FDec(20001, 1000), FInt(25)>>

LINEAR_SOH_POINTS_PCT == <<FInt(80), FInt(70), FInt(80), FInt(70), FInt(80), FInt(75)>>

\* pybamm_simulation_rev.01py.py, lines 10-27
REV01_PROJECT_LIFETIME_YEARS == 10

INFLATION_RATE == FDec(2, 100)

NOMINAL_DISCOUNT_RATE == FSub(FMul(FAdd(F_1, DISCOUNT_RATE), FAdd(F_1, INFLATION_RATE)), F_1)

INITIAL_SOH_PCT_FRACTION == FDec(80, 100)

CAPEX_PER_KWH_DOLLAR == FInt(500)

FIXED_OM_DOLLAR_PER_KWH_YEAR == FInt(15)

VARIABLE_OM_DOLLAR_PER_MWH == FInt(5)

REV01_ROUND_TRIP_EFFICIENCY == FDec(90, 100)

DAILY_CYCLES == F_1

\* what pybamm_degradation_output.csv can hold: the columns Time_Years and
\* SOH_Pct_PyBaMM of a run that reaches 70 % in year 7.5, and of a run that
\* stays above 70 %
CsvFiles == {"absent", "eol_reached", "eol_not_reached"}

CsvTimeYears(csv) == <<F_0, FDec(25, 10), FInt(5), FDec(75, 10), FInt(10)>>

CsvSohPct(csv) ==
    IF csv = "eol_reached"
    THEN <<F_100, FInt(90), FInt(80), FInt(70), FInt(60)>>
    ELSE <<F_100, FDec(995, 10), FInt(99), FDec(985, 10), FInt(98)>>

\* Series.min() of the Time_Years of the rows with SOH_Pct_PyBaMM <= 70: the
\* smallest of them, NaN when there is no such row
RECURSIVE MinTimeAtEol(_, _, _, _)
MinTimeAtEol(times, sohs, k, least) ==
    IF k > Len(times) THEN least
    ELSE MinTimeAtEol(times, sohs, k + 1,
                      IF FLe(sohs[k], SOH_END_OF_LIFE) /\ (IsNaN(least) \/ FLt(times[k], least))
                      THEN times[k] ELSE least)

TechLifeSimulated_unchecked(csv) ==
    IF csv = "absent" THEN T_TECH_LIFE
    ELSE MinTimeAtEol(CsvTimeYears(csv), CsvSohPct(csv), 1, FNaN)

\* T_TECH_LIFE_SIMULATED of calculate_lcoe.py, lines 27-40
TechLifeSimulated(csv) ==
    IF csv = "absent" THEN T_TECH_LIFE
    ELSE Only({IF ~IsNaN(simulated) THEN simulated ELSE T_TECH_LIFE :
                  simulated \in {MinTimeAtEol(CsvTimeYears(csv), CsvSohPct(csv), 1, FNaN)}})

\* time_points and soh_points_pct of Graphics.py, lines 509-519
SensitivityTimePoints(csv) == IF csv = "absent" THEN LINEAR_TIME_POINTS ELSE CsvTimeYears(csv)

SensitivitySohPoints(csv) == IF csv = "absent" THEN LINEAR_SOH_POINTS_PCT ELSE CsvSohPct(csv)

\* annual_soh_pct_of_initial of Graphics.py, lines 522-528
SensitivityAnnualSohPct(time_points, soh_points_pct) ==
    InterpYears(10, time_points, soh_points_pct)
        \o InterpYears(10, time_points, soh_points_pct)
        \o InterpYears(5, time_points, soh_points_pct)

\* ANNUAL_ENERGY_KWH of Graphics.py, lines 531-537, for one year
SensitivityAnnualEnergy(soh_pct) ==
    Only({FMul(FMul(e, ROUND_TRIP_EFFICIENCY), DAILY_USAGE_DAYS) :
             e \in {FMul(FMul(NOMINAL_CAPACITY_KWH, FDiv(soh_pct, F_100)), MAX_DOD_FRACTION)}})

\* np.sum(ANNUAL_ENERGY_KWH / (1 + DISCOUNT_RATE) ** YEARS), Graphics.py line 540
EnergyNpv(ANNUAL_ENERGY_KWH, compound) ==
    Only({NpSum(v) : v \in {Vector([y \in 1..Len(ANNUAL_ENERGY_KWH) |->
                                       FDiv(ANNUAL_ENERGY_KWH[y], compound[y])],
                                   Len(ANNUAL_ENERGY_KWH))}})

SensitivityEnergyNpv(time_points, soh_points_pct) ==
    Only({EnergyNpv(Vector([y \in 1..PROJECT_LIFETIME_YEARS |->
                               SensitivityAnnualEnergy(annual_soh_pct[y])],
                           PROJECT_LIFETIME_YEARS), COMPOUND_BASE) :
             annual_soh_pct \in {SensitivityAnnualSohPct(time_points, soh_points_pct)}})

\* (1 + NOMINAL_DISCOUNT_RATE) ** YEARS of pybamm_simulation_rev.01py.py
REV01_COMPOUND ==
    Only({NpPowerRange(base, REV01_PROJECT_LIFETIME_YEARS) :
             base \in {FAdd(F_1, NOMINAL_DISCOUNT_RATE)}})

\* ANNUAL_ENERGY_KWH of pybamm_simulation_rev.01py.py, lines 47-69, for one year
Rev01AnnualEnergy(soh_pct) ==
    Only({FMul(FMul(e, FInt(365)), REV01_ROUND_TRIP_EFFICIENCY) :
             e \in {FMul(FMul(NOMINAL_CAPACITY_KWH,
                              FMul(FDiv(soh_pct, F_100), INITIAL_SOH_PCT_FRACTION)),
                         DAILY_CYCLES)}})

\* OPEX_TOTAL_ANNUAL, lines 72-76
Rev01AnnualOpex(annual_energy) ==
    FAdd(FMul(NOMINAL_CAPACITY_KWH, FIXED_OM_DOLLAR_PER_KWH_YEAR),
         FMul(FDiv(annual_energy, FInt(1000)), VARIABLE_OM_DOLLAR_PER_MWH))

\* LCOE_STORAGE of pybamm_simulation_rev.01py.py, lines 63-88: TOTAL_COSTS_NPV,
\* ENERGY_DELIVERED_NPV and their quotient
Rev01Energy(time_points, soh_points_pct) ==
    Only({Vector([y \in 1..REV01_PROJECT_LIFETIME_YEARS |-> Rev01AnnualEnergy(annual_soh_pct[y])],
                 REV01_PROJECT_LIFETIME_YEARS) :
             annual_soh_pct \in {InterpYears(REV01_PROJECT_LIFETIME_YEARS, time_points,
                                             soh_points_pct)}})

Rev01TotalCosts(ANNUAL_ENERGY_KWH) ==
    FAdd(FMul(NOMINAL_CAPACITY_KWH, CAPEX_PER_KWH_DOLLAR),
         EnergyNpv(Vector([y \in 1..REV01_PROJECT_LIFETIME_YEARS |->
                              Rev01AnnualOpex(ANNUAL_ENERGY_KWH[y])],
                          REV01_PROJECT_LIFETIME_YEARS), REV01_COMPOUND))

\* ------------------------------------------------------------------------
\* Config.py: degradation-rate table and lookup
\* ------------------------------------------------------------------------

\* DEGRADATION_RATES['DoD_pct']
DoD_pct == <<F_0, FInt(10), FInt(50), F_100>>

\* DEGRADATION_RATES['Rate_per_100_EFC']
Rate_per_100_EFC == <<F_0, FDec(15, 1000), FDec(75, 1000), FDec(150, 1000)>>

\* numpy.searchsorted(xs, x) (side = 'left'): how many table entries are < x;
\* NaN sorts after every number
SearchSorted(xs, x) ==
    IF IsNaN(x) THEN Len(xs)
    ELSE Cardinality({j \in 1..Len(xs) : FLt(xs[j], x)})

\* scipy interp1d(kind='linear', fill_value="extrapolate"), evaluated as scipy
\* does: the segment is the one ending at the first breakpoint >= x, clipped
\* to the first and last segments, y = slope * (x - x_lo) + y_lo
InterpSlope_over_hi(x_lo, x_hi, y_lo, y_hi) == FDiv(FSub(y_hi, y_lo), x_hi)

InterpSlope(x_lo, x_hi, y_lo, y_hi) == FDiv(FSub(y_hi, y_lo), FSub(x_hi, x_lo))

InterpSegment(slope, x, x_lo, y_lo) == FAdd(FMul(slope, FSub(x, x_lo)), y_lo)

rate_interp_func(x) ==
    LET hi == Min(Max(SearchSorted(DoD_pct, x), 1), Len(DoD_pct) - 1) + 1
        lo == hi - 1
    IN  Only({InterpSegment(slope, x, DoD_pct[lo], Rate_per_100_EFC[lo]) :
                  slope \in {InterpSlope(DoD_pct[lo], DoD_pct[hi],
                                         Rate_per_100_EFC[lo], Rate_per_100_EFC[hi])}})

get_rate_per_efc_unclipped(dod_pct) ==
    Only({PyMax(F_0, FDiv(rate_per_100_efc, F_100)) :
              rate_per_100_efc \in {rate_interp_func(dod_pct)}})

get_rate_per_efc(dod_pct) ==
    Only({PyMax(F_0, FDiv(rate_per_100_efc, F_100)) :
              rate_per_100_efc \in
                  {Only({rate_interp_func(dod_clipped) :
                             dod_clipped \in {FClip(dod_pct, F_0, F_100)}})}})

\* ------------------------------------------------------------------------
\* Config.py: hourly simulation
\* ------------------------------------------------------------------------

CAPACITY_NOMINAL_AH == F_100

INITIAL_SOH_PCT == FInt(80)

DAYS_OF_SIMULATION == 365

HOURS_OF_SIMULATION == DAYS_OF_SIMULATION * 24

CAPACITY_INITIAL_SOH_AH == FMul(FDiv(INITIAL_SOH_PCT, F_100), CAPACITY_NOMINAL_AH)

\* generate_hourly_current(hours)[i]
generate_hourly_current(i) ==
    LET current_rate == FMul(FDec(25, 100), CAPACITY_NOMINAL_AH)
        hour_of_day  == i % 24
    IN  IF 8 <= hour_of_day /\ hour_of_day < 20 THEN FNeg(current_rate)
        ELSE IF (20 <= hour_of_day /\ hour_of_day < 24)
                \/ (0 <= hour_of_day /\ hour_of_day < 8) THEN current_rate
        ELSE FZero

VARIABLES
    profile,                \* which hourly current profile this run is given
    i,                      \* the next hour of the loop
    I_h,                    \* the current of the hour just simulated
    current_soc_pct,
    current_capacity_ah,
    current_soh_pct,
    total_efc_accumulated,
    dod_buffer_sum,
    results,                \* rows filled so far, and the last row written
    events,                 \* degradation events so far (history)
    idle,                   \* every current so far was zero (history)
    peak_buffer,            \* the largest value dod_buffer_sum was tested at (history)
    swing_sum,              \* the sum of dod_in_hour over the hours so far (history)
    pc,
    rate_call,              \* a call of get_rate_per_efc and the call before it
    script,                 \* which Monte Carlo script runs
    spread,                 \* "default": the uncertainty spreads of the scripts;
                            \* "zero": every standard deviation set to zero
    draws,                  \* what the random generators returned, one record for each iteration
    samples,                \* the sampled inputs, one record for each iteration
    mc_i,                   \* the next iteration of the Monte Carlo loop
    lcoe_list,              \* the list lcoe_results of pybamm_simulation_monte_carlo.py
    lcoe_column,            \* the column LCOE_USD_per_kWh of Graphics.py
    energy_npv,             \* ENERGY_DELIVERED_NPV of each iteration so far (history)
    total_costs_npv,        \* TOTAL_COSTS_NPV of each iteration so far (history)
    lcoe_results,           \* the array lcoe_results the statistics are taken of
    relative_soh,           \* relative_soh_adjusted of each iteration so far (history)
    stats,                  \* LCOE_MEAN, LCOE_P10, LCOE_P50, LCOE_P90
    threshold,              \* LCC_P90, CAPEX_INITIAL_P90, CAPEX_PER_KWH_P90
    mc_pc,
    lognormal_call,         \* a call of get_lognormal_params: its arguments and what it returned
    lcoe_run                \* a run of calculate_lcoe.py, of the CAPEX sensitivity analysis
                            \* or of pybamm_simulation_rev.01py.py: the script's variables

hourly_vars == <<profile, i, I_h, current_soc_pct, current_capacity_ah,
                 current_soh_pct, total_efc_accumulated, dod_buffer_sum, results,
                 events, idle, peak_buffer, swing_sum, pc>>

mc_vars == <<script, spread, draws, samples, mc_i, lcoe_list, lcoe_column, energy_npv,
             total_costs_npv, lcoe_results, relative_soh, stats, threshold, mc_pc>>

script_vars == <<lognormal_call, lcoe_run>>

vars == <<hourly_vars, rate_call, mc_vars, script_vars>>

\* the model runs the first MaxDays days of the DAYS_OF_SIMULATION
MaxDays == 30

\* hours of free choice in a "free" profile
MaxFreeHours == 5

\* hours of the hourly alternating +-StressCurrent profile
MaxStressHours == 1340

StressCurrent == FInt(100)

\* the currents a "free" profile draws from, in A
Currents == {FInt(-100), FInt(-25), FInt(-10), FZero, FInt(10), FInt(25), F_100}

\* 0.08000000001387562 A and 0.02833333331770678 A
TrimCurrentA == [k |-> "fin", s |-> 0, m |-> <<22047, 3962, 27525, 163>>, e |-> -56]

TrimCurrentB == [k |-> "fin", s |-> 0, m |-> <<25364, 8163, 3495, 232>>, e |-> -58]

\* the last hours of the "exhaust" profile, which is the "stress" profile
\* until hour ExhaustStart
ExhaustTail ==
    <<FNeg(StressCurrent), TrimCurrentA, FNeg(StressCurrent), StressCurrent,
      FNeg(StressCurrent), TrimCurrentB, FNeg(StressCurrent), StressCurrent,
      StressCurrent, FZero>>

ExhaustStart == MaxStressHours - Len(ExhaustTail) - 2

Profiles == {"daily", "zero", "stress", "exhaust", "free"}

\* len(hourly_current_profile)
Hours(p) ==
    CASE p = "daily"   -> Min(HOURS_OF_SIMULATION, MaxDays * 24)
      [] p = "zero"    -> Min(HOURS_OF_SIMULATION, MaxDays * 24)
      [] p = "stress"  -> MaxStressHours
      [] p = "exhaust" -> ExhaustStart + Len(ExhaustTail)
      [] p = "free"    -> MaxFreeHours

\* the values hourly_current_profile[h] can have
CurrentAt(p, h) ==
    CASE p = "daily"   -> {generate_hourly_current(h)}
      [] p = "zero"    -> {FZero}
      [] p = "stress"  -> {IF h % 2 = 0 THEN FNeg(StressCurrent) ELSE StressCurrent}
      [] p = "exhaust" -> {ExhaustTail[h - ExhaustStart + 1]}
      [] p = "free"    -> Currents

\* the profiles a run of profile p can turn out to be once hour h is known:
\* "stress" and "exhaust" are one run until they part at hour ExhaustStart
ProfileAfter(p, h) ==
    IF p = "stress" /\ h + 1 = ExhaustStart THEN {"stress", "exhaust"} ELSE {p}

\* line 110
DeltaSoc(I, capacity_ah) == FMul(FDiv(FMul(I, F_1), capacity_ah), F_100)

\* lines 113-114
NewSoc(soc_pct, delta_soc_pct) ==
    FClip(FAdd(soc_pct, delta_soc_pct), F_0, F_100)

DodInHour_sum(new_soc_pct, soc_pct) == FAbs(FAdd(new_soc_pct, soc_pct))

\* line 120
DodInHour(new_soc_pct, soc_pct) == FAbs(FSub(new_soc_pct, soc_pct))

CycleComplete_half(buffer) == FGe(buffer, F_100)

\* line 124
CycleComplete(buffer) == FGe(buffer, F_200)

\* line 126
EfcThisHour(buffer) == FDiv(buffer, F_200)

EfcAccumulated_minus(total_efc, efc_this_hour) == FSub(total_efc, efc_this_hour)

\* line 127
EfcAccumulated(total_efc, efc_this_hour) == FAdd(total_efc, efc_this_hour)

\* line 138
SohFadePct(rate_per_efc, efc_this_hour) ==
    FMul(FMul(rate_per_efc, efc_this_hour), F_100)

CapacityFadeAh_current(soh_fade_pct_of_initial) ==
    FMul(FDiv(soh_fade_pct_of_initial, F_100), current_capacity_ah)

\* line 141
CapacityFadeAh(soh_fade_pct_of_initial) ==
    FMul(FDiv(soh_fade_pct_of_initial, F_100), CAPACITY_INITIAL_SOH_AH)

CapacityAfterFade_plus(capacity_ah, capacity_fade_ah) == FAdd(capacity_ah, capacity_fade_ah)

\* line 144
CapacityAfterFade(capacity_ah, capacity_fade_ah) == FSub(capacity_ah, capacity_fade_ah)

BufferAfterCycle_zero(buffer) == F_0

\* line 147
BufferAfterCycle(buffer) == FMod(buffer, F_200)

SohPct_of_initial(capacity_ah) == FMul(FDiv(capacity_ah, CAPACITY_INITIAL_SOH_AH), F_100)

\* line 151
SohPct(capacity_ah) == FMul(FDiv(capacity_ah, CAPACITY_NOMINAL_AH), F_100)

\* no float: a call that has not returned, or was never made
NoValue == [k |-> "none", s |-> 0, m |-> <<>>, e |-> 0]

NoCall == [dod_pct |-> NoValue, rate |-> NoValue,
           last_dod_pct |-> NoValue, last_rate |-> NoValue]

InitHourly ==
    /\ profile \in Profiles \ {"exhaust"}
    /\ i = 0
    /\ I_h = FZero
    /\ current_soh_pct = INITIAL_SOH_PCT
    /\ current_capacity_ah = CAPACITY_INITIAL_SOH_AH
    /\ current_soc_pct = F_100
    /\ total_efc_accumulated = F_0
    /\ dod_buffer_sum = F_0
    /\ results = [rows |-> 0, Capacity_Ah |-> FNaN, SOH_Pct |-> FNaN, SoC_Pct |-> FNaN]
    /\ events = 0
    /\ idle = TRUE
    /\ peak_buffer = F_0
    /\ swing_sum = F_0
    /\ pc = "loop"

\* the statistics and the CAPEX threshold before they are computed
NoStats == [LCOE_MEAN |-> NoValue, LCOE_P10 |-> NoValue, LCOE_P50 |-> NoValue,
            LCOE_P90 |-> NoValue]

NoThreshold == [LCC_P90 |-> NoValue, CAPEX_INITIAL_P90 |-> NoValue,
                CAPEX_PER_KWH_P90 |-> NoValue]

\* no Monte Carlo script runs
MCNotRun ==
    /\ script = "none"
    /\ spread = "none"
    /\ draws = <<>>
    /\ samples = <<>>
    /\ mc_i = 0
    /\ lcoe_list = <<>>
    /\ lcoe_column = <<>>
    /\ energy_npv = <<>>
    /\ total_costs_npv = <<>>
    /\ lcoe_results = <<>>
    /\ relative_soh = <<>>
    /\ stats = NoStats
    /\ threshold = NoThreshold
    /\ mc_pc = "off"

NoLognormalCall == [nominal_value |-> NoValue, percent_std |-> NoValue,
                    mu |-> NoValue, sigma |-> NoValue]

NoLcoeRun ==
    [script |-> "none", config |-> "none", csv |-> "none", pc |-> "off",
     time_points |-> <<>>, soh_points_pct |-> <<>>, T_TECH_LIFE_SIMULATED |-> NoValue,
     lifetime |-> 0, scenario |-> 0, t |-> 0,
     CAPEX_TOTAL |-> NoValue, OPEX_COST_ANNUAL |-> NoValue, REPLACEMENT_COST |-> NoValue,
     TOTAL_COSTS_NPV |-> NoValue, ENERGY_DELIVERED_NPV |-> NoValue, LCOE |-> NoValue,
     results |-> <<>>]

\* none of the other scripts runs
ScriptsNotRun == lognormal_call = NoLognormalCall /\ lcoe_run = NoLcoeRun

Init == InitHourly /\ rate_call = NoCall /\ MCNotRun /\ ScriptsNotRun

\* one pass of the loop at lines 105-159; each bound name is the variable the
\* code assigns at that line, and the lines of the if at 124 run when
\* cycle_complete holds
HourStep ==
    /\ pc = "loop"
    /\ i < Hours(profile)
    /\ \E I \in CurrentAt(profile, i) :
       \E delta_soc_pct \in {DeltaSoc(I, current_capacity_ah)} :
       \E new_soc_pct \in {NewSoc(current_soc_pct, delta_soc_pct)} :
       \E dod_in_hour \in {DodInHour(new_soc_pct, current_soc_pct)} :
       \E buffer \in {FAdd(dod_buffer_sum, dod_in_hour)} :
       \E cycle_complete \in {CycleComplete(buffer)} :
         /\ IF cycle_complete
            THEN \E efc_this_hour \in {EfcThisHour(buffer)} :
                 \E rate_per_efc \in {get_rate_per_efc(F_100)} :
                 \E soh_fade_pct_of_initial \in {SohFadePct(rate_per_efc, efc_this_hour)} :
                 \E capacity_fade_ah \in {CapacityFadeAh(soh_fade_pct_of_initial)} :
                 \E capacity_ah \in {CapacityAfterFade(current_capacity_ah, capacity_fade_ah)} :
                 \E soh_pct \in {SohPct(capacity_ah)} :
                   /\ total_efc_accumulated' =
                          EfcAccumulated(total_efc_accumulated, efc_this_hour)
                   /\ current_capacity_ah' = capacity_ah
                   /\ dod_buffer_sum' = BufferAfterCycle(buffer)
                   /\ current_soh_pct' = soh_pct
                   /\ events' = events + 1
                   /\ results' = [rows |-> i + 1, Capacity_Ah |-> capacity_ah,
                                  SOH_Pct |-> soh_pct, SoC_Pct |-> new_soc_pct]
            ELSE \E soh_pct \in {SohPct(current_capacity_ah)} :
                   /\ dod_buffer_sum' = buffer
                   /\ current_soh_pct' = soh_pct
                   /\ results' = [rows |-> i + 1, Capacity_Ah |-> current_capacity_ah,
                                  SOH_Pct |-> soh_pct, SoC_Pct |-> new_soc_pct]
                   /\ UNCHANGED <<total_efc_accumulated, current_capacity_ah, events>>
         /\ I_h' = I
         /\ current_soc_pct' = new_soc_pct
         /\ idle' = (idle /\ IsZero(I))
         /\ peak_buffer' = PyMax(peak_buffer, buffer)
         /\ swing_sum' = FAdd(swing_sum, dod_in_hour)
    /\ i' = i + 1
    /\ profile' \in ProfileAfter(profile, i)
    /\ UNCHANGED <<pc, rate_call, mc_vars, script_vars>>

\* the loop is over: lines 165-193 report and save, and change no state
Finish ==
    /\ pc = "loop"
    /\ i = Hours(profile)
    /\ pc' = "done"
    /\ UNCHANGED <<profile, i, I_h, current_soc_pct, current_capacity_ah,
                   current_soh_pct, total_efc_accumulated, dod_buffer_sum,
                   results, events, idle, peak_buffer, swing_sum, rate_call,
                   mc_vars, script_vars>>

Next == HourStep \/ Finish

Spec == Init /\ [][Next]_vars

\* ------------------------------------------------------------------------
\* Config.py: get_rate_per_efc as a function of any DoD, called repeatedly
\* ------------------------------------------------------------------------

\* 9.999999999999998, 50.00000000000001 and 99.99999999999999: the floats next
\* to breakpoints of the table
JustBelow10 == [k |-> "fin", s |-> 0, m |-> <<32767, 32767, 32767, 159>>, e |-> -49]

JustAbove50 == [k |-> "fin", s |-> 0, m |-> <<1, 0, 0, 200>>, e |-> -47]

JustBelow100 == [k |-> "fin", s |-> 0, m |-> <<32767, 32767, 32767, 199>>, e |-> -46]

\* the DoD arguments of the calls
RateInputs ==
    {FNaN, FInf(1), FInf(0), FInt(-1000), FInt(-20), FDec(-5, 10), F_0,
     FDec(25, 100), FInt(5), JustBelow10, FInt(10), FInt(20), FInt(30), FInt(40),
     FInt(50), JustAbove50, FInt(75), FDec(995, 10), JustBelow100, F_100,
     FDec(1005, 10), FInt(120), FInt(1000000000)}

RateInit ==
    /\ InitHourly
    /\ profile = "zero"
    /\ \E d \in RateInputs :
         rate_call = [NoCall EXCEPT !.dod_pct = d]
    /\ MCNotRun
    /\ ScriptsNotRun

\* get_rate_per_efc(dod_pct) returns
RateReturn ==
    /\ rate_call.dod_pct # NoValue
    /\ rate_call.rate = NoValue
    /\ rate_call' = [rate_call EXCEPT !.rate = get_rate_per_efc(rate_call.dod_pct)]
    /\ UNCHANGED <<hourly_vars, mc_vars, script_vars>>

\* the next call of get_rate_per_efc
RateCall ==
    /\ rate_call.rate # NoValue
    /\ rate_call.last_rate = NoValue
    /\ \E d \in RateInputs :
         rate_call' = [dod_pct |-> d, rate |-> NoValue,
                       last_dod_pct |-> rate_call.dod_pct,
                       last_rate |-> rate_call.rate]
    /\ UNCHANGED <<hourly_vars, mc_vars, script_vars>>

RateNext == RateReturn \/ RateCall

SpecRate == RateInit /\ [][RateNext]_vars

\* ------------------------------------------------------------------------
\* get_lognormal_params, called on its own
\* ------------------------------------------------------------------------

\* the model calls it with the nominal values 50, 75, ..., 50 + 25 * MaxNominal
MaxNominal == 15

NominalValues == {FInt(50 + 25 * n) : n \in 0..MaxNominal}

\* percent_std: no spread, and full widths of 10, 20 and 40 percent
PercentStds == {F_0, FInt(10), FInt(20), FInt(40)}

LognormalInit ==
    /\ InitHourly
    /\ profile = "zero"
    /\ rate_call = NoCall
    /\ MCNotRun
    /\ \E v \in NominalValues, p \in PercentStds :
         lognormal_call = [NoLognormalCall EXCEPT !.nominal_value = v, !.percent_std = p]
    /\ lcoe_run = NoLcoeRun

\* get_lognormal_params(nominal_value, percent_std) returns mu, sigma
LognormalReturn ==
    /\ lognormal_call.nominal_value # NoValue
    /\ lognormal_call.mu = NoValue
    /\ \E r \in {get_lognormal_params(lognormal_call.nominal_value,
                                       lognormal_call.percent_std)} :
         lognormal_call' = [lognormal_call EXCEPT !.mu = r.mu, !.sigma = r.sigma]
    /\ UNCHANGED <<hourly_vars, rate_call, mc_vars, lcoe_run>>

LognormalNext == LognormalReturn

SpecLognormal == LognormalInit /\ [][LognormalNext]_vars

\* ------------------------------------------------------------------------
\* pybamm_simulation_monte_carlo.py and Graphics.py: the Monte Carlo loop
\* ------------------------------------------------------------------------

\* the model runs the first MaxIterations of the N_ITERATIONS iterations
MaxIterations == 2

Iterations == Min(N_ITERATIONS, MaxIterations)

Scripts == {"monte_carlo", "gsa"}

\* discount-rate draws in the lower and in the upper tail
DISCOUNT_DRAW_LOW == FDec(-1, 100)

DISCOUNT_DRAW_HIGH == FDec(11, 100)

\* draws of the four random generators, before the floors: the nominal
\* values, a draw in each lower tail, a draw in each upper tail, and the
\* nominal values at half the CAPEX
RawSamples ==
    {[capex_per_kwh |-> BASE_CAPEX_PER_KWH, discount_rate |-> BASE_DISCOUNT_RATE,
      opex_percentage |-> OPEX_PERCENTAGE, degradation_factor |-> F_1],
     [capex_per_kwh |-> FInt(150), discount_rate |-> DISCOUNT_DRAW_LOW,
      opex_percentage |-> FDec(1, 1000), degradation_factor |-> FDec(7, 10)],
     [capex_per_kwh |-> FInt(260), discount_rate |-> DISCOUNT_DRAW_HIGH,
      opex_percentage |-> FDec(35, 1000), degradation_factor |-> FDec(12, 10)],
     [capex_per_kwh |-> F_100, discount_rate |-> BASE_DISCOUNT_RATE,
      opex_percentage |-> OPEX_PERCENTAGE, degradation_factor |-> F_1]}

\* the lower limits of the samples
DISCOUNT_FLOOR == FDec(1, 100)

OPEX_FLOOR == FDec(5, 1000)

DEGRADATION_FLOOR == FDec(8, 10)

Floored_raw(raw) == raw

\* element i of CAPEX_SAMPLES, DISCOUNT_SAMPLES, OPEX_SAMPLES and
\* DEGRADATION_FACTORS for one draw
Floored(raw) ==
    [capex_per_kwh      |-> raw.capex_per_kwh,
     discount_rate      |-> NpMaximum(raw.discount_rate, DISCOUNT_FLOOR),
     opex_percentage    |-> NpMaximum(raw.opex_percentage, OPEX_FLOOR),
     degradation_factor |-> NpMaximum(raw.degradation_factor, DEGRADATION_FLOOR)]

\* what the generators return when every standard deviation is zero:
\* np.random.lognormal(mu, 0) is exp(mu), np.random.normal(loc, 0) is loc
ZeroSpreadDraw ==
    [capex_per_kwh      |-> FExp(get_lognormal_params(BASE_CAPEX_PER_KWH, F_0).mu),
     discount_rate      |-> BASE_DISCOUNT_RATE,
     opex_percentage    |-> OPEX_PERCENTAGE,
     degradation_factor |-> F_1]

Spreads == {"default", "zero"}

\* the arrays the generators can return
Draws(sp) ==
    IF sp = "zero" THEN {[k \in 1..Iterations |-> ZeroSpreadDraw]}
    ELSE [1..Iterations -> RawSamples]

Samples == {Floored(raw) : raw \in RawSamples \cup {ZeroSpreadDraw}}

\* (1 + discount_rate) ** YEARS and DISCOUNT_FACTORS of each sampled discount
\* rate, computed once
SampledDiscountRates ==
    {NpMaximum(rate, DISCOUNT_FLOOR) :
        rate \in {BASE_DISCOUNT_RATE, DISCOUNT_DRAW_LOW, DISCOUNT_DRAW_HIGH}}

CompoundFactorsOf == [discount_rate \in SampledDiscountRates |-> CompoundFactors(discount_rate)]

DiscountFactorsOf ==
    [discount_rate \in SampledDiscountRates |->
        DiscountFactors(CompoundFactorsOf[discount_rate])]

CapexInitialSample_carried(capex_per_kwh) ==
    IF mc_i = 0 THEN FMul(capex_per_kwh, NOMINAL_CAPACITY_KWH)
    ELSE FAdd(FMul(capex_per_kwh, NOMINAL_CAPACITY_KWH), total_costs_npv[mc_i])

\* CAPEX_INITIAL_SAMPLES[i] of Graphics.py
CapexInitialSample(capex_per_kwh) == FMul(capex_per_kwh, NOMINAL_CAPACITY_KWH)

NotNaN(v) == ~IsNaN(v)

\* DataFrame.dropna on the LCOE column, then .values
DropNa(column) == SelectSeq(column, NotNaN)

MCInit ==
    /\ InitHourly
    /\ profile = "zero"
    /\ rate_call = NoCall
    /\ script \in Scripts
    /\ spread \in Spreads
    /\ draws \in Draws(spread)
    /\ samples = <<>>
    /\ mc_i = 0
    /\ lcoe_list = <<>>
    /\ lcoe_column = <<>>
    /\ energy_npv = <<>>
    /\ total_costs_npv = <<>>
    /\ lcoe_results = <<>>
    /\ relative_soh = <<>>
    /\ stats = NoStats
    /\ threshold = NoThreshold
    /\ mc_pc = "sample"
    /\ ScriptsNotRun

\* the sampling step (lines 55-76, Graphics.py 250-282): the floors are
\* applied to the draws, and Graphics.py creates the LCOE column, all NaN
MCSample ==
    /\ mc_pc = "sample"
    /\ samples' = Vector([k \in 1..Iterations |-> Floored(draws[k])], Iterations)
    /\ lcoe_column' = IF script = "gsa"
                      THEN Vector([k \in 1..Iterations |-> FNaN], Iterations)
                      ELSE <<>>
    /\ mc_pc' = "loop"
    /\ UNCHANGED <<script, spread, draws, mc_i, lcoe_list, energy_npv, total_costs_npv,
                   lcoe_results, relative_soh, stats, threshold, hourly_vars, rate_call, script_vars>>

\* one pass of the loop (lines 78-119, Graphics.py 285-313); each bound name
\* is the variable the code assigns; compound is (1 + discount_rate) ** YEARS
MCIteration ==
    /\ mc_pc = "loop"
    /\ mc_i < Iterations
    /\ \E sample \in {samples[mc_i + 1]} :
       \E compound \in {CompoundFactorsOf[sample.discount_rate]} :
       \E DISCOUNT_FACTORS \in {DiscountFactorsOf[sample.discount_rate]} :
       \E relative_soh_adjusted \in {RelativeSohAdjusted(sample.degradation_factor)} :
       \E ENERGY_DELIVERED_NPV \in {EnergyDeliveredNpv(relative_soh_adjusted, DISCOUNT_FACTORS)} :
       \E CAPEX_INITIAL \in {IF script = "gsa" THEN CapexInitialSample(sample.capex_per_kwh)
                             ELSE CapexInitial(sample.capex_per_kwh)} :
       \E OM_ANNUAL \in {OmAnnual(CAPEX_INITIAL, sample.opex_percentage)} :
       \E NPV_OPEX \in {NpvOpex(OM_ANNUAL, DISCOUNT_FACTORS)} :
       \E NPV_REPLACEMENTS \in {NpvReplacements(CAPEX_INITIAL, compound, 1, F_0)} :
       \E TOTAL_COSTS_NPV \in {TotalCostsNpv(CAPEX_INITIAL, NPV_REPLACEMENTS, NPV_OPEX)} :
         /\ relative_soh' = Append(relative_soh, relative_soh_adjusted)
         /\ energy_npv' = Append(energy_npv, ENERGY_DELIVERED_NPV)
         /\ total_costs_npv' = Append(total_costs_npv, TOTAL_COSTS_NPV)
         /\ IF EnergyValid(ENERGY_DELIVERED_NPV)
            THEN \E LCOE_STORAGE \in {LcoeStorage(TOTAL_COSTS_NPV, ENERGY_DELIVERED_NPV)} :
                   IF script = "gsa"
                   THEN /\ lcoe_column' = [lcoe_column EXCEPT ![mc_i + 1] = LCOE_STORAGE]
                        /\ UNCHANGED lcoe_list
                   ELSE /\ lcoe_list' = Append(lcoe_list, LCOE_STORAGE)
                        /\ UNCHANGED lcoe_column
            ELSE UNCHANGED <<lcoe_list, lcoe_column>>
    /\ mc_i' = mc_i + 1
    /\ UNCHANGED <<script, spread, draws, samples, lcoe_results, stats, threshold, mc_pc,
                   hourly_vars, rate_call, script_vars>>

\* the loop is over: lcoe_results = np.array(lcoe_results) (line 121), or the
\* column without its NaN rows (Graphics.py 315-316)
MCCollect ==
    /\ mc_pc = "loop"
    /\ mc_i = Iterations
    /\ lcoe_results' = IF script = "gsa" THEN DropNa(lcoe_column) ELSE lcoe_list
    /\ mc_pc' = "stats"
    /\ UNCHANGED <<script, spread, draws, samples, mc_i, lcoe_list, lcoe_column,
                   energy_npv, total_costs_npv, relative_soh, stats, threshold,
                   hourly_vars, rate_call, script_vars>>

\* the statistics of the valid LCOEs (lines 127-130, Graphics.py 322-324);
\* Graphics.py takes no 10th percentile
MCStats ==
    /\ mc_pc = "stats"
    /\ Len(lcoe_results) > 0
    /\ \E percentile \in {[q \in {10, 50, 90} |-> NpPercentile(lcoe_results, q)]} :
         stats' = [LCOE_MEAN |-> NpMean(lcoe_results),
                   LCOE_P10  |-> IF script = "gsa" THEN NoValue ELSE percentile[10],
                   LCOE_P50  |-> percentile[50],
                   LCOE_P90  |-> percentile[90]]
    /\ mc_pc' = "invert"
    /\ UNCHANGED <<script, spread, draws, samples, mc_i, lcoe_list, lcoe_column,
                   energy_npv, total_costs_npv, lcoe_results, relative_soh, threshold,
                   hourly_vars, rate_call, script_vars>>

\* the CAPEX threshold of the 90th percentile (lines 149-154, Graphics.py 336-339)
MCInvert ==
    /\ mc_pc = "invert"
    /\ \E LCC_P90 \in {LccOfLcoe(stats.LCOE_P90)} :
       \E CAPEX_INITIAL_P90 \in {CapexOfLcc(LCC_P90)} :
         threshold' = [LCC_P90 |-> LCC_P90,
                       CAPEX_INITIAL_P90 |-> CAPEX_INITIAL_P90,
                       CAPEX_PER_KWH_P90 |-> CapexPerKwh(CAPEX_INITIAL_P90)]
    /\ mc_pc' = "done"
    /\ UNCHANGED <<script, spread, draws, samples, mc_i, lcoe_list, lcoe_column,
                   energy_npv, total_costs_npv, lcoe_results, relative_soh, stats,
                   hourly_vars, rate_call, script_vars>>

MCNext == MCSample \/ MCIteration \/ MCCollect \/ MCStats \/ MCInvert

SpecMC == MCInit /\ [][MCNext]_vars

\* ------------------------------------------------------------------------
\* calculate_lcoe.py, the CAPEX sensitivity analysis of Graphics.py and
\* pybamm_simulation_rev.01py.py: the runs
\* ------------------------------------------------------------------------

LcoeScripts == {"calculate_lcoe", "capex_sensitivity", "rev01"}

\* "article": the constants of the scripts; "regression": the CAPEX
\* sensitivity loop with a one-year lifetime and 1000 kWh delivered in year 1
LcoeConfigs(script_name) ==
    IF script_name = "capex_sensitivity" THEN {"article", "regression"} ELSE {"article"}

RegressionAnnualEnergy == <<FInt(1000)>>

\* PROJECT_LIFETIME_YEARS of the run
LifetimeOf(script_name, config) ==
    IF config = "regression" THEN Len(RegressionAnnualEnergy)
    ELSE IF script_name = "rev01" THEN REV01_PROJECT_LIFETIME_YEARS
    ELSE PROJECT_LIFETIME_YEARS

LcoeInit ==
    /\ InitHourly
    /\ profile = "zero"
    /\ rate_call = NoCall
    /\ MCNotRun
    /\ lognormal_call = NoLognormalCall
    /\ \E script_name \in LcoeScripts, csv \in CsvFiles :
       \E config \in LcoeConfigs(script_name) :
         lcoe_run = [NoLcoeRun EXCEPT !.script = script_name, !.config = config,
                                      !.csv = csv, !.pc = "load",
                                      !.lifetime = LifetimeOf(script_name, config)]

\* the scenario's CAPEX_TOTAL, OPEX_COST_ANNUAL and the start of its
\* accumulation (Graphics.py 566-574)
ScenarioStart(run, scenario) ==
    Only({[run EXCEPT !.scenario = scenario,
                      !.CAPEX_TOTAL = capex_total,
                      !.OPEX_COST_ANNUAL = FMul(capex_total, O_M_COST_PCT_OF_CAPEX),
                      !.TOTAL_COSTS_NPV = capex_total,
                      !.t = 1] :
             capex_total \in {FMul(NOMINAL_CAPACITY_KWH, CAPEX_SCENARIOS[scenario])}})

\* the degradation input is read, or replaced, or the script stops
\* (calculate_lcoe.py 27-49, Graphics.py 507-540, pybamm_simulation_rev.01py.py 33-44)
LcoeLoad ==
    /\ lcoe_run.pc = "load"
    /\ lcoe_run' =
         IF lcoe_run.script = "calculate_lcoe"
         THEN [lcoe_run EXCEPT !.T_TECH_LIFE_SIMULATED = TechLifeSimulated(lcoe_run.csv),
                               !.CAPEX_TOTAL = CAPEX_INITIAL_YEAR0,
                               !.OPEX_COST_ANNUAL = FMul(CAPEX_INITIAL_YEAR0, O_M_COST_PCT_OF_CAPEX),
                               !.REPLACEMENT_COST = COST_REPLACEMENT,
                               !.TOTAL_COSTS_NPV = CAPEX_INITIAL_YEAR0,
                               !.t = 1,
                               !.pc = "costs"]
         ELSE IF lcoe_run.script = "capex_sensitivity"
         THEN Only({ScenarioStart(
                      [lcoe_run EXCEPT !.time_points = time_points,
                                       !.soh_points_pct = soh_points_pct,
                                       !.ENERGY_DELIVERED_NPV =
                                           IF lcoe_run.config = "regression"
                                           THEN EnergyNpv(RegressionAnnualEnergy, COMPOUND_BASE)
                                           ELSE SensitivityEnergyNpv(time_points, soh_points_pct),
                                       !.REPLACEMENT_COST =
                                           FMul(NOMINAL_CAPACITY_KWH, REPLACEMENT_COSTS_BASE_PER_KWH),
                                       !.pc = "costs"], 1) :
                       time_points \in {SensitivityTimePoints(lcoe_run.csv)},
                       soh_points_pct \in {SensitivitySohPoints(lcoe_run.csv)}})
         ELSE IF lcoe_run.csv = "absent"
         THEN [lcoe_run EXCEPT !.pc = "aborted"]
         ELSE [lcoe_run EXCEPT !.time_points = CsvTimeYears(lcoe_run.csv),
                               !.soh_points_pct = CsvSohPct(lcoe_run.csv),
                               !.pc = "lcoe"]
    /\ UNCHANGED <<hourly_vars, rate_call, mc_vars, lognormal_call>>

\* TOTAL_COSTS_NPV after the pass t of the loop: the discounted OPEX is
\* added, and in the years 10 and 20 the discounted replacement cost
\* (calculate_lcoe.py 51-55, Graphics.py 577-585)
CostsAfterYear_undiscounted(TOTAL_COSTS_NPV, OPEX_COST_ANNUAL, REPLACEMENT_COST, t) ==
    Only({IF t = 10 \/ t = 20 THEN FAdd(with_opex, REPLACEMENT_COST) ELSE with_opex :
             with_opex \in {FAdd(TOTAL_COSTS_NPV, OPEX_COST_ANNUAL)}})

CostsAfterYear(TOTAL_COSTS_NPV, OPEX_COST_ANNUAL, REPLACEMENT_COST, t) ==
    Only({Only({IF t = 10 \/ t = 20
                THEN FAdd(with_opex, FMul(REPLACEMENT_COST, discount_factor))
                ELSE with_opex :
                   with_opex \in {FAdd(TOTAL_COSTS_NPV, FMul(OPEX_COST_ANNUAL, discount_factor))}}) :
             discount_factor \in {FDiv(F_1, COMPOUND_BASE[t])}})

\* one pass of the loop over the years
LcoeYear ==
    /\ lcoe_run.pc = "costs"
    /\ lcoe_run.t <= lcoe_run.lifetime
    /\ lcoe_run' = [lcoe_run EXCEPT
                      !.TOTAL_COSTS_NPV = CostsAfterYear(lcoe_run.TOTAL_COSTS_NPV,
                                                         lcoe_run.OPEX_COST_ANNUAL,
                                                         lcoe_run.REPLACEMENT_COST, lcoe_run.t),
                      !.t = lcoe_run.t + 1]
    /\ UNCHANGED <<hourly_vars, rate_call, mc_vars, lognormal_call>>

\* the end of a scenario of the CAPEX sensitivity analysis: its LCOE is
\* stored, and the next scenario starts (Graphics.py 588-590)
LcoeScenario ==
    /\ lcoe_run.pc = "costs"
    /\ lcoe_run.script = "capex_sensitivity"
    /\ lcoe_run.t > lcoe_run.lifetime
    /\ \E LCOE \in {FDiv(lcoe_run.TOTAL_COSTS_NPV, lcoe_run.ENERGY_DELIVERED_NPV)} :
       \E stored \in {[lcoe_run EXCEPT !.LCOE = LCOE, !.results = Append(lcoe_run.results, LCOE)]} :
         lcoe_run' = IF lcoe_run.scenario < Len(CAPEX_SCENARIOS)
                     THEN ScenarioStart(stored, lcoe_run.scenario + 1)
                     ELSE [stored EXCEPT !.pc = "done"]
    /\ UNCHANGED <<hourly_vars, rate_call, mc_vars, lognormal_call>>

\* LCOE_FINAL of calculate_lcoe.py, lines 61-63; without energy (line 89)
\* no LCOE is computed
LcoeFinal ==
    /\ lcoe_run.pc = "costs"
    /\ lcoe_run.script = "calculate_lcoe"
    /\ lcoe_run.t > lcoe_run.lifetime
    /\ lcoe_run' = [lcoe_run EXCEPT
                      !.LCOE = IF FGt(TOTAL_EVP_KWH, F_0)
                               THEN FDiv(TOTAL_CVP_ARTICLE, TOTAL_EVP_KWH) ELSE NoValue,
                      !.pc = "done"]
    /\ UNCHANGED <<hourly_vars, rate_call, mc_vars, lognormal_call>>

\* the LCOE of pybamm_simulation_rev.01py.py, lines 47-88
LcoeRev01 ==
    /\ lcoe_run.pc = "lcoe"
    /\ \E ANNUAL_ENERGY_KWH \in {Rev01Energy(lcoe_run.time_points, lcoe_run.soh_points_pct)} :
       \E TOTAL_COSTS_NPV \in {Rev01TotalCosts(ANNUAL_ENERGY_KWH)} :
       \E ENERGY_DELIVERED_NPV \in {EnergyNpv(ANNUAL_ENERGY_KWH, REV01_COMPOUND)} :
         lcoe_run' = [lcoe_run EXCEPT
                        !.CAPEX_TOTAL = FMul(NOMINAL_CAPACITY_KWH, CAPEX_PER_KWH_DOLLAR),
                        !.TOTAL_COSTS_NPV = TOTAL_COSTS_NPV,
                        !.ENERGY_DELIVERED_NPV = ENERGY_DELIVERED_NPV,
                        !.LCOE = FDiv(TOTAL_COSTS_NPV, ENERGY_DELIVERED_NPV),
                        !.pc = "done"]
    /\ UNCHANGED <<hourly_vars, rate_call, mc_vars, lognormal_call>>

LcoeNext == LcoeLoad \/ LcoeYear \/ LcoeScenario \/ LcoeFinal \/ LcoeRev01

SpecLcoe == LcoeInit /\ [][LcoeNext]_vars

\* ------------------------------------------------------------------------
\* Properties of the hourly simulation
\* ------------------------------------------------------------------------

\* |a - b| <= 1e-6 (false when either is NaN)
Tolerance == FDec(1, 1000000)

TolEq(a, b) == FLe(FAbs(FSub(a, b)), Tolerance)

\* C1: for every current profile and every hour, the recorded state of charge
\* lies in the closed interval [0, 100] percent
SocWithinBounds ==
    results.rows > 0 =>
        FLe(F_0, results.SoC_Pct) /\ FLe(results.SoC_Pct, F_100)

\* C2: the usable capacity never increases from one hour to the next and is
\* never greater than the initial capacity, in the state and in the row
\* recorded for the hour
CapacityNonIncreasing ==
    /\ [][FLe(current_capacity_ah', current_capacity_ah)]_vars
    /\ [](/\ FLe(current_capacity_ah, CAPACITY_INITIAL_SOH_AH)
          /\ results.rows > 0 => results.Capacity_Ah = current_capacity_ah)

\* C2 witness: a degradation event has lowered the recorded capacity
CapacityHasFaded ==
    /\ events > 0
    /\ results.rows > 0
    /\ FLt(results.Capacity_Ah, CAPACITY_INITIAL_SOH_AH)

\* C3: the usable capacity is strictly positive whenever an hour's
\* state-of-charge delta is about to be computed from it
CapacityPositive ==
    (pc = "loop" /\ i < Hours(profile)) => FGt(current_capacity_ah, F_0)

\* C4: under the daily full-discharge / full-charge profile, after K whole
\* days the cumulative EFC count is K and the cumulative capacity loss is K
\* times the loss of one EFC at 100% DoD
DailyCycleIsOneEfc ==
    (profile = "daily" /\ i > 0 /\ i % 24 = 0) =>
        /\ TolEq(total_efc_accumulated, FInt(i \div 24))
        /\ \A loss \in {FSub(CAPACITY_INITIAL_SOH_AH, current_capacity_ah)} :
           \A loss_per_efc \in {FDiv(FInt(12), F_100)} :
           \A expected \in {FMul(FInt(i \div 24), loss_per_efc)} :
               TolEq(loss, expected)

\* C5: while every hour's current has been zero, SoC, SoH and usable capacity
\* are exactly their initial values, in the state and in the recorded row, and
\* the EFC counter and the DoD accumulator are zero
IdleKeepsInitialState ==
    idle =>
        /\ current_soc_pct = F_100
        /\ current_soh_pct = INITIAL_SOH_PCT
        /\ current_capacity_ah = CAPACITY_INITIAL_SOH_AH
        /\ total_efc_accumulated = F_0
        /\ dod_buffer_sum = F_0
        /\ results.rows > 0 =>
               /\ results.SoC_Pct = F_100
               /\ results.SOH_Pct = INITIAL_SOH_PCT
               /\ results.Capacity_Ah = CAPACITY_INITIAL_SOH_AH

\* C5 witness: a whole all-zero run has been simulated
IdleRunDone == idle /\ pc = "done" /\ results.rows = Hours("zero")

\* C6: as long as the DoD accumulator has never reached 200, capacity and EFC
\* counter keep their initial values; and a finished run has recorded a row
\* for every hour of its profile
NoCycleNoFade ==
    /\ FLt(peak_buffer, F_200) =>
           /\ current_capacity_ah = CAPACITY_INITIAL_SOH_AH
           /\ total_efc_accumulated = F_0
    /\ pc = "done" => results.rows = Hours(profile)

\* C6 witness: a run with SoC swings has finished without the accumulator
\* reaching 200
SwingsBelowThresholdDone ==
    /\ pc = "done"
    /\ FGt(peak_buffer, F_100)
    /\ FLt(peak_buffer, F_200)

\* C7: the cumulative EFC counter never decreases from one hour to the next
EfcNonDecreasing ==
    [][FLe(total_efc_accumulated, total_efc_accumulated')]_vars

\* C7 witness: the counter has been raised by more than one event
EfcRaisedTwice == events >= 2 /\ FGt(total_efc_accumulated, F_1)

\* an hour of the loop has just run
HourRan == i' = i + 1

\* dod_buffer_sum as the hour tests it: the accumulator plus the absolute
\* change of the state of charge
BufferTested == FAdd(dod_buffer_sum, FAbs(FSub(current_soc_pct', current_soc_pct)))

\* C21: in each hour, if the DoD accumulator with the hour's swing added is
\* at least 200, the EFC counter grows by accumulator / 200 and the
\* accumulator becomes accumulator mod 200; if it is below 200, the EFC
\* counter and the usable capacity are unchanged and the accumulator keeps
\* its new value
EfcTrigger ==
    [][HourRan =>
         \A buffer \in {BufferTested} :
            IF FGe(buffer, F_200)
            THEN /\ total_efc_accumulated' = FAdd(total_efc_accumulated, FDiv(buffer, F_200))
                 /\ dod_buffer_sum' = FMod(buffer, F_200)
                 /\ events' = events + 1
            ELSE /\ total_efc_accumulated' = total_efc_accumulated
                 /\ current_capacity_ah' = current_capacity_ah
                 /\ dod_buffer_sum' = buffer
                 /\ events' = events]_vars

\* C21 witness: the one event so far raised the EFC counter by more than 1
\* and left a remainder in the accumulator
EfcAboveOneCarried ==
    /\ events = 1
    /\ FGt(total_efc_accumulated, F_1)
    /\ FGt(dod_buffer_sum, F_0)

\* 1e-9 Ah
FadeTolerance == FDiv(Tolerance, FInt(1000))

SohFollowsCapacity ==
    /\ [](results.rows > 0 =>
            /\ results.SOH_Pct = FMul(FDiv(results.Capacity_Ah, CAPACITY_NOMINAL_AH), F_100)
            /\ results.SOH_Pct = current_soh_pct
            /\ FLe(results.SOH_Pct, INITIAL_SOH_PCT))
    /\ [][FLe(current_soh_pct', current_soh_pct)]_vars

\* C23 witness: a row is recorded for an hour without an event (the
\* accumulator holds 100 or more, which no remainder after an event does) in a
\* run whose earlier events have lowered the SoH
SohRecordedBetweenEvents ==
    /\ events > 0
    /\ results.rows = i
    /\ FGe(dod_buffer_sum, F_100)
    /\ FLt(results.SOH_Pct, INITIAL_SOH_PCT)

\* the absolute difference between the new and the previous state of charge
SwingOfHour == FAbs(FSub(current_soc_pct', current_soc_pct))

\* the DoD of the hour is the absolute change of the state of charge, taken
\* either way round, and it is what the hour adds to the swing total
DodIsSwing ==
    /\ SwingOfHour = FAbs(FSub(current_soc_pct, current_soc_pct'))
    /\ swing_sum' = FAdd(swing_sum, SwingOfHour)

\* the DoD of the hour is in [0, 100]
DodInRange == FLe(F_0, SwingOfHour) /\ FLe(SwingOfHour, F_100)

\* no DoD in an hour that charges at 100% or discharges at 0%
DodZeroWhenSaturated ==
    /\ (current_soc_pct = F_100 /\ FGt(I_h', F_0)) => IsZero(SwingOfHour)
    /\ (IsZero(current_soc_pct) /\ FLt(I_h', F_0)) => IsZero(SwingOfHour)

\* C24: the DoD added to the accumulator in an hour is the absolute
\* difference between the clamped new SoC and the previous SoC: it is in
\* [0, 100], the same for a charge and a discharge of equal size, and zero in
\* an hour where SoC is saturated at 100 while charging or at 0 while
\* discharging
DodIsAbsoluteSwing ==
    [][HourRan => (DodIsSwing /\ DodInRange /\ DodZeroWhenSaturated)]_vars

\* C25: at the end of every hour the DoD accumulator lies in [0, 200)
AccumulatorBelowCycle ==
    results.rows > 0 => (FLe(F_0, dod_buffer_sum) /\ FLt(dod_buffer_sum, F_200))

\* 200 x the EFC counter + the DoD accumulator
SwingAccounted == FAdd(FMul(F_200, total_efc_accumulated), dod_buffer_sum)

\* C27: after every hour, for every profile, 200 x cumulative EFC counter +
\* DoD accumulator equals the total absolute SoC swing since the start of the
\* run
SwingConserved ==
    results.rows > 0 => TolEq(SwingAccounted, swing_sum)

\* ------------------------------------------------------------------------
\* Properties of get_rate_per_efc
\* ------------------------------------------------------------------------

\* 1e-15
RateTolerance == FDiv(Tolerance, FInt(1000000000))

\* 0 <= x <= 100
InTableRange(x) == FLe(F_0, x) /\ FLe(x, F_100)

\* the straight line through breakpoints j and j + 1 of the table, at x, as a
\* rate per EFC
LinearBlend(j, x) ==
    Only({FDiv(FAdd(Rate_per_100_EFC[j], FMul(dy, t)), F_100) :
              t \in {Only({FDiv(FSub(x, DoD_pct[j]), dx) :
                               dx \in {FSub(DoD_pct[j + 1], DoD_pct[j])}})},
              dy \in {FSub(Rate_per_100_EFC[j + 1], Rate_per_100_EFC[j])}})

\* C8: on [0, 100] the rate per EFC never decreases as the DoD grows, at each
\* breakpoint of the table it is exactly the table value divided by 100, and
\* between two adjacent breakpoints it is on the straight line through them
\* (to 1e-15)
RateFollowsTable ==
    rate_call.rate # NoValue =>
        /\ \A j \in 1..Len(DoD_pct) :
               rate_call.dod_pct = DoD_pct[j] =>
                   rate_call.rate = FDiv(Rate_per_100_EFC[j], F_100)
        /\ \A j \in 1..(Len(DoD_pct) - 1) :
               (FLe(DoD_pct[j], rate_call.dod_pct)
                    /\ FLe(rate_call.dod_pct, DoD_pct[j + 1])) =>
                   \A blend \in {LinearBlend(j, rate_call.dod_pct)} :
                       FLe(FAbs(FSub(rate_call.rate, blend)), RateTolerance)
        /\ (/\ rate_call.last_rate # NoValue
            /\ InTableRange(rate_call.last_dod_pct)
            /\ InTableRange(rate_call.dod_pct)
            /\ FLe(rate_call.last_dod_pct, rate_call.dod_pct)) =>
               FLe(rate_call.last_rate, rate_call.rate)

\* C8 witness: the rate at 30% DoD has been looked up after the rate at 10%
\* and is the larger
RateBetweenBreakpoints ==
    /\ rate_call.rate # NoValue
    /\ rate_call.last_rate # NoValue
    /\ rate_call.last_dod_pct = FInt(10)
    /\ rate_call.dod_pct = FInt(30)
    /\ FLt(rate_call.last_rate, rate_call.rate)

\* C9: for every DoD argument the call returns a finite rate that is not
\* negative; below 0 it is the table's rate at 0 and above 100 the table's
\* rate at 100
RateClampedNonNegative ==
    rate_call.rate # NoValue =>
        /\ IsFinite(rate_call.rate)
        /\ FGe(rate_call.rate, F_0)
        /\ FLt(rate_call.dod_pct, F_0) =>
               rate_call.rate = FDiv(Rate_per_100_EFC[1], F_100)
        /\ FGt(rate_call.dod_pct, F_100) =>
               rate_call.rate = FDiv(Rate_per_100_EFC[Len(DoD_pct)], F_100)

\* C9 witness: a call with a DoD above 100 has returned after one with a DoD
\* below 0
RateOutsideTableRange ==
    /\ rate_call.rate # NoValue
    /\ rate_call.last_rate # NoValue
    /\ FLt(rate_call.last_dod_pct, F_0)
    /\ FGt(rate_call.dod_pct, F_100)

\* ------------------------------------------------------------------------
\* Properties of the Monte Carlo loop
\* ------------------------------------------------------------------------

\* the LCOEs of the iterations 1..k whose energy-delivered present value is
\* strictly positive, in the order of the iterations
RECURSIVE ValidLcoes(_)
ValidLcoes(k) ==
    IF k = 0 THEN <<>>
    ELSE IF FGt(energy_npv[k], F_0)
         THEN Append(ValidLcoes(k - 1), FDiv(total_costs_npv[k], energy_npv[k]))
    ELSE ValidLcoes(k - 1)

KeptLcoePositive ==
    /\ \A k \in 1..Len(lcoe_list) : FGt(lcoe_list[k], F_0)
    /\ \A k \in 1..Len(lcoe_column) : IsNaN(lcoe_column[k]) \/ FGt(lcoe_column[k], F_0)
    /\ \A k \in 1..Len(lcoe_results) : FGt(lcoe_results[k], F_0)

\* C11 witness: the list holds the LCOE of an iteration whose discount rate,
\* OPEX fraction and degradation factor all sit on their floors
FlooredSampleKept ==
    /\ script = "monte_carlo"
    /\ mc_pc = "stats"
    /\ Len(lcoe_results) = Iterations
    /\ \E k \in 1..Iterations :
         /\ samples[k].discount_rate = DISCOUNT_FLOOR
         /\ samples[k].opex_percentage = OPEX_FLOOR
         /\ samples[k].degradation_factor = DEGRADATION_FLOOR

\* the LCOE of the nominal parameters in closed form: the nominal total CAPEX
\* times the nominal cost multiplier, over the nominal energy present value
NOMINAL_CAPEX_INITIAL == FMul(NOMINAL_CAPACITY_KWH, BASE_CAPEX_PER_KWH)

NominalLcoe == FDiv(FMul(NOMINAL_CAPEX_INITIAL, LCC_CAPEX_FACTOR), ENERGY_DELIVERED_NPV_BASE)

\* a and b differ by at most one part in 10^12 of b
RelTolerance == FDiv(Tolerance, FInt(1000000))

CloseTo(a, b) == FLe(FAbs(FSub(a, b)), FMul(FAbs(b), RelTolerance))

\* C12: with every standard deviation zero, all the iterations done so far
\* have recorded the same LCOE, and that LCOE is the closed-form LCOE of the
\* nominal parameters (to one part in 10^12: floating-point rounding of
\* exp(log(200)) and of the two orders of summation)
ZeroSpreadIsNominal ==
    spread = "zero" =>
        /\ \A k \in 1..Len(lcoe_list) :
               lcoe_list[k] = lcoe_list[1] /\ CloseTo(lcoe_list[k], NominalLcoe)
        /\ \A k \in 1..Len(lcoe_column) :
               k <= mc_i => lcoe_column[k] = lcoe_column[1]
                            /\ CloseTo(lcoe_column[k], NominalLcoe)
        /\ \A k \in 1..Len(lcoe_results) :
               lcoe_results[k] = lcoe_results[1] /\ CloseTo(lcoe_results[k], NominalLcoe)

\* C12 witness: a zero-spread run has recorded the LCOE of every iteration
ZeroSpreadRunDone ==
    /\ spread = "zero"
    /\ mc_pc = "stats"
    /\ Len(lcoe_results) = Iterations

\* C13: once the statistics are computed from a non-empty array of valid
\* LCOEs, LCOE_P10 <= LCOE_P50 <= LCOE_P90 (Graphics.py takes no LCOE_P10)
PercentilesOrdered ==
    mc_pc \in {"invert", "done"} =>
        /\ script = "monte_carlo" => FLe(stats.LCOE_P10, stats.LCOE_P50)
        /\ FLe(stats.LCOE_P50, stats.LCOE_P90)

\* C13 witness: the percentiles of an array of different LCOEs are computed,
\* and they are three different values
PercentilesSpreadOut ==
    /\ mc_pc = "done"
    /\ script = "monte_carlo"
    /\ \E k \in 1..Len(lcoe_results) : lcoe_results[k] # lcoe_results[1]
    /\ FLt(stats.LCOE_P10, stats.LCOE_P50)
    /\ FLt(stats.LCOE_P50, stats.LCOE_P90)

\* a sampled value is its draw where the draw is not below the floor, and
\* the floor otherwise
FlooredAt(sample, draw, floor) ==
    /\ FGe(sample, floor)
    /\ IF FLt(draw, floor) THEN sample = floor ELSE sample = draw

\* C14: after the sampling step every iteration has its sample, with discount
\* rate >= 0.01, OPEX fraction >= 0.005 and degradation factor >= 0.8: a draw
\* below its floor is replaced by the floor, any other draw is kept; and when
\* the loop is over, every iteration has been kept
SamplesFloored ==
    mc_pc \in {"loop", "stats", "invert", "done"} =>
        /\ Len(samples) = Len(draws)
        /\ \A k \in 1..Len(draws) :
             /\ FlooredAt(samples[k].discount_rate, draws[k].discount_rate, DISCOUNT_FLOOR)
             /\ FlooredAt(samples[k].opex_percentage, draws[k].opex_percentage, OPEX_FLOOR)
             /\ FlooredAt(samples[k].degradation_factor, draws[k].degradation_factor,
                          DEGRADATION_FLOOR)
        /\ mc_pc # "loop" => Len(lcoe_results) = Len(draws)

\* C14 witness: an iteration whose three normal draws were all below their
\* floors has run to the end
DrawsBelowFloorsRun ==
    /\ mc_pc = "done"
    /\ \E k \in 1..Len(draws) :
         /\ FLt(draws[k].discount_rate, F_0)
         /\ FLt(draws[k].opex_percentage, OPEX_FLOOR)
         /\ FLt(draws[k].degradation_factor, DEGRADATION_FLOOR)

\* C15: in every iteration run so far, the adjusted relative SoH of every
\* project year is at least 0.875 and at most 1.0
AdjustedSohInRange ==
    \A k \in 1..Len(relative_soh) :
        /\ Len(relative_soh[k]) = PROJECT_LIFETIME_YEARS
        /\ \A y \in 1..PROJECT_LIFETIME_YEARS :
             /\ FGe(relative_soh[k][y], FDec(875, 1000))
             /\ FLe(relative_soh[k][y], F_1)

\* C15 witness: one iteration ran with a degradation factor above 1 (the
\* scaled curve goes above 1.0) and another with a factor that takes the
\* scaled curve below 0.875
SohClampedBothWays ==
    /\ \E k \in 1..Len(relative_soh) :
         /\ FGt(samples[k].degradation_factor, F_1)
         /\ FGt(FMul(RELATIVE_SOH_FRACTION[1], samples[k].degradation_factor), F_1)
    /\ \E k \in 1..Len(relative_soh) :
         FLt(FMul(RELATIVE_SOH_FRACTION[1], samples[k].degradation_factor), FDec(875, 1000))

\* every iteration was given the same CAPEX per kWh, with the nominal discount
\* rate, the nominal OPEX fraction and the unscaled relative-SoH curve
NominalCostStructure ==
    /\ Len(samples) = Iterations
    /\ \A k \in 1..Iterations :
         /\ samples[k].capex_per_kwh = samples[1].capex_per_kwh
         /\ samples[k].discount_rate = BASE_DISCOUNT_RATE
         /\ samples[k].opex_percentage = OPEX_PERCENTAGE
         /\ samples[k].degradation_factor = F_1

\* C16: the maximum total CAPEX is LCOE_P90 times the nominal energy present
\* value, over the multiplier 1 + FACTOR_OPEX_NPV + FACTOR_REPL_NPV; and when
\* LCOE_P90 is the nominal-parameter LCOE of a total CAPEX C, the maximum
\* total CAPEX is C and the maximum CAPEX per kWh is C over the capacity (to
\* one part in 10^12)
ThresholdInvertsNominal ==
    mc_pc = "done" =>
        /\ threshold.CAPEX_INITIAL_P90
             = FDiv(FMul(stats.LCOE_P90, ENERGY_DELIVERED_NPV_BASE),
                    FAdd(FAdd(F_1, FACTOR_OPEX_NPV), FACTOR_REPL_NPV))
        /\ NominalCostStructure =>
             /\ CloseTo(threshold.CAPEX_INITIAL_P90, CapexInitial(samples[1].capex_per_kwh))
             /\ CloseTo(threshold.CAPEX_PER_KWH_P90, samples[1].capex_per_kwh)

\* C16 witness: the threshold is derived from the nominal-parameter LCOE of a
\* CAPEX of 100 per kWh, half the nominal one
ThresholdOfHalfCapex ==
    /\ mc_pc = "done"
    /\ NominalCostStructure
    /\ samples[1].capex_per_kwh = F_100

\* the median exp(mu) and the mean exp(mu + sigma^2 / 2) of the distribution
\* np.random.lognormal(mu, sigma) draws from
LognormalMedian(mu, sigma) == FExp(mu)

LognormalMean(mu, sigma) == FExp(FAdd(mu, FDiv(FMul(sigma, sigma), FInt(2))))

\* nominal_value / sqrt(1 + (percent_std / 200)^2)
SpreadMedian(nominal_value, percent_std) ==
    Only({FDiv(nominal_value, FSqrt(FAdd(F_1, FMul(cv, cv)))) :
             cv \in {FDiv(percent_std, F_200)}})

\* C17 as stated: the returned parameters make the nominal value the median
\* of the sampled distribution, exp(mu) = nominal_value
NominalIsMedian ==
    lognormal_call.mu # NoValue =>
        CloseTo(LognormalMedian(lognormal_call.mu, lognormal_call.sigma),
                lognormal_call.nominal_value)

\* C17 amended: the returned parameters make the nominal value the mean of
\* the sampled distribution, exp(mu + sigma^2 / 2) = nominal_value; the median
\* exp(mu) is nominal_value / sqrt(1 + (percent_std / 200)^2), which is below
\* the nominal value whenever percent_std > 0 and equal to it only with no spread
NominalIsMean ==
    lognormal_call.mu # NoValue =>
        \A median \in {LognormalMedian(lognormal_call.mu, lognormal_call.sigma)} :
            /\ CloseTo(LognormalMean(lognormal_call.mu, lognormal_call.sigma),
                       lognormal_call.nominal_value)
            /\ CloseTo(median, SpreadMedian(lognormal_call.nominal_value,
                                             lognormal_call.percent_std))
            /\ IF FGt(lognormal_call.percent_std, F_0)
               THEN /\ FLt(median, lognormal_call.nominal_value)
                    /\ ~CloseTo(median, lognormal_call.nominal_value)
               ELSE CloseTo(median, lognormal_call.nominal_value)

\* C17 witness: get_lognormal_params(200, 20), the call of both scripts, has returned
LognormalOfScriptsReturned ==
    /\ lognormal_call.nominal_value = BASE_CAPEX_PER_KWH
    /\ lognormal_call.percent_std = FInt(20)
    /\ lognormal_call.mu # NoValue
    /\ FGt(lognormal_call.sigma, F_0)

\* CAPEX + sum over t = 1..T of OPEX / (1 + r)^t + sum over the replacement
\* years 10 and 20 up to T of replacement / (1 + r)^t
ClosedFormCosts(capex, opex, replacement, T) ==
    Only({IF T >= 20 THEN FAdd(FAdd(with_opex, FDiv(replacement, COMPOUND_BASE[10])),
                               FDiv(replacement, COMPOUND_BASE[20]))
          ELSE IF T >= 10 THEN FAdd(with_opex, FDiv(replacement, COMPOUND_BASE[10]))
          ELSE with_opex :
             with_opex \in {IF T = 0 THEN capex
                            ELSE FAdd(capex, NpSum(Vector([t \in 1..T |->
                                                     FDiv(opex, COMPOUND_BASE[t])], T)))}})

\* (7760 + 7760 * 0.02 / 1.08) / (1000 / 1.08)
RegressionLcoe ==
    FDiv(FAdd(FInt(7760), FDiv(FMul(FInt(7760), FDec(2, 100)), FDec(108, 100))),
         FDiv(FInt(1000), FDec(108, 100)))

\* C18: after every pass of the year-by-year loop, the accumulated cost is the
\* closed-form present value of the years passed (to one part in 10^12); and
\* with a CAPEX of 7760, r = 8 %, OPEX 2 % of CAPEX, a one-year lifetime and
\* 1000 kWh delivered in year 1 the LCOE is (7760 + 7760*0.02/1.08) / (1000/1.08)
IterativeIsClosedForm ==
    /\ lcoe_run.pc = "costs" =>
         CloseTo(lcoe_run.TOTAL_COSTS_NPV,
                 ClosedFormCosts(lcoe_run.CAPEX_TOTAL, lcoe_run.OPEX_COST_ANNUAL,
                                 lcoe_run.REPLACEMENT_COST, lcoe_run.t - 1))
    /\ (lcoe_run.config = "regression" /\ Len(lcoe_run.results) >= 2) =>
         CloseTo(lcoe_run.results[2], RegressionLcoe)

\* C18 witness: a 25-year accumulation with both replacements is complete
AccumulationComplete ==
    /\ lcoe_run.pc = "costs"
    /\ lcoe_run.lifetime = PROJECT_LIFETIME_YEARS
    /\ lcoe_run.t = PROJECT_LIFETIME_YEARS + 1
    /\ FGt(lcoe_run.TOTAL_COSTS_NPV, FAdd(lcoe_run.CAPEX_TOTAL, lcoe_run.REPLACEMENT_COST))

\* the script has reached its LCOE computation
AtLcoeComputation == lcoe_run.pc \in {"costs", "lcoe", "done"}

\* C20: a script that has reached its LCOE computation has its degradation
\* input: calculate_lcoe.py a technical life that is a number, 10.0 when the
\* CSV is absent or has no row with SoH <= 70; the CAPEX sensitivity analysis
\* its SoH table, the linear one when the CSV is absent;
\* pybamm_simulation_rev.01py.py the table of the CSV; and without the CSV
\* pybamm_simulation_rev.01py.py stops and computes no LCOE
DegradationInputDefined ==
    /\ (lcoe_run.script = "calculate_lcoe" /\ AtLcoeComputation) =>
         /\ IsFinite(lcoe_run.T_TECH_LIFE_SIMULATED)
         /\ lcoe_run.csv \in {"absent", "eol_not_reached"} =>
              lcoe_run.T_TECH_LIFE_SIMULATED = FInt(10)
    /\ (lcoe_run.script = "capex_sensitivity" /\ AtLcoeComputation) =>
         /\ Len(lcoe_run.time_points) > 0
         /\ Len(lcoe_run.soh_points_pct) = Len(lcoe_run.time_points)
         /\ IsFinite(lcoe_run.ENERGY_DELIVERED_NPV)
         /\ lcoe_run.csv = "absent" =>
              /\ lcoe_run.time_points = LINEAR_TIME_POINTS
              /\ lcoe_run.soh_points_pct = LINEAR_SOH_POINTS_PCT
    /\ (lcoe_run.script = "rev01" /\ AtLcoeComputation) =>
         /\ lcoe_run.csv # "absent"
         /\ Len(lcoe_run.time_points) > 0
         /\ Len(lcoe_run.soh_points_pct) = Len(lcoe_run.time_points)
    /\ (lcoe_run.script = "rev01" /\ lcoe_run.csv = "absent") =>
         /\ lcoe_run.pc \in {"load", "aborted"}
         /\ lcoe_run.LCOE = NoValue

\* C20 witness: calculate_lcoe.py has finished on a CSV with no row at or
\* below 70 %
NoEolRowRunDone ==
    /\ lcoe_run.script = "calculate_lcoe"
    /\ lcoe_run.csv = "eol_not_reached"
    /\ lcoe_run.pc = "done"
    /\ lcoe_run.LCOE # NoValue

\* the LCOE recorded for iteration k: element k of the list, or row k of the column
RecordedLcoe(k) == IF script = "gsa" THEN lcoe_column[k] ELSE lcoe_list[k]

\* what one pass of the loop computes from a total CAPEX, a sample and the
\* constants alone
LcoeFromCapex(CAPEX_INITIAL, sample) ==
    Only({LcoeStorage(TotalCostsNpv(CAPEX_INITIAL, NPV_REPLACEMENTS, NPV_OPEX),
                      ENERGY_DELIVERED_NPV) :
            ENERGY_DELIVERED_NPV \in
                {EnergyDeliveredNpv(RelativeSohAdjusted(sample.degradation_factor),
                                    DiscountFactorsOf[sample.discount_rate])},
            NPV_OPEX \in
                {NpvOpex(OmAnnual(CAPEX_INITIAL, sample.opex_percentage),
                         DiscountFactorsOf[sample.discount_rate])},
            NPV_REPLACEMENTS \in
                {NpvReplacements(CAPEX_INITIAL, CompoundFactorsOf[sample.discount_rate],
                                 1, F_0)}})

\* the LCOE of each sample taken alone, in each script
LcoeOfSampleAlone ==
    [script_name \in Scripts, sample \in Samples |->
        LcoeFromCapex(IF script_name = "gsa" THEN CapexInitialSample(sample.capex_per_kwh)
                      ELSE CapexInitial(sample.capex_per_kwh), sample)]

\* the orders the elements 1..n can be taken in
Orders(n) == {order \in [1..n -> 1..n] : \A a, b \in 1..n : order[a] = order[b] => a = b}

Reordered(a, order) == Vector([k \in 1..Len(a) |-> a[order[k]]], Len(a))

AnnuityFactor(discount_rate) ==
    Only({FDiv(FSub(F_1, FDiv(F_1, growth)), discount_rate) :
            growth \in {FPow(FAdd(F_1, discount_rate), PROJECT_LIFETIME_YEARS)}})

\* a cost of year y_rep discounted at a discount rate
DiscountedAt(cost, discount_rate, y_rep) ==
    FDiv(cost, FPow(FAdd(F_1, discount_rate), y_rep))

\* total CAPEX + OPEX fraction x total CAPEX x annuity factor + the total
\* CAPEX discounted from year 10 and from year 20
CostsAsStated(sample) ==
    Only({FAdd(FAdd(CAPEX, FMul(FMul(CAPEX, sample.opex_percentage),
                                 AnnuityFactor(sample.discount_rate))),
               FAdd(DiscountedAt(CAPEX, sample.discount_rate, 10),
                    DiscountedAt(CAPEX, sample.discount_rate, 20))) :
            CAPEX \in {FMul(NOMINAL_CAPACITY_KWH, sample.capex_per_kwh)}})

CostsAsStatedOf == [sample \in Samples |-> CostsAsStated(sample)]

\* C26: in every iteration the total cost present value is the sampled total
\* CAPEX + the discounted OPEX of all project years + the replacement cost
\* discounted from years 10 and 20 at the sampled rate, each replacement
\* costing the sampled total CAPEX (to one part in 10^12: the code sums the
\* years one by one)
TotalCostsAsStated ==
    script \in Scripts =>
        \A k \in 1..mc_i : CloseTo(total_costs_npv[k], CostsAsStatedOf[samples[k]])

\* C26 witness: an iteration is costed whose CAPEX, discount rate and OPEX
\* fraction are all away from the nominal values
SampledCostsComputed ==
    /\ mc_i >= 1
    /\ Len(total_costs_npv) = mc_i
    /\ samples[1].capex_per_kwh # BASE_CAPEX_PER_KWH
    /\ samples[1].discount_rate # BASE_DISCOUNT_RATE
    /\ samples[1].opex_percentage # OPEX_PERCENTAGE

\* C28: with the sampling floors and the relative-SoH clamp, the energy
\* present value of every iteration is strictly positive, no iteration is
\* excluded, and the array of results holds one LCOE for each iteration
EnergyAlwaysPositive ==
    script \in Scripts =>
        /\ \A k \in 1..mc_i : FGt(energy_npv[k], F_0)
        /\ script = "monte_carlo" => Len(lcoe_list) = mc_i
        /\ script = "gsa" => \A k \in 1..mc_i : ~IsNaN(lcoe_column[k])
        /\ mc_pc \in {"stats", "invert", "done"} => Len(lcoe_results) = Iterations

\* C28 witness: a run of Graphics.py is complete, with an iteration whose
\* discount-rate draw was negative and whose degradation factor is on its
\* floor, and no row was dropped
NoIterationExcluded ==
    /\ script = "gsa"
    /\ mc_pc = "done"
    /\ Len(lcoe_results) = Iterations
    /\ \E k \in 1..Iterations :
         /\ FLt(draws[k].discount_rate, F_0)
         /\ samples[k].discount_rate = DISCOUNT_FLOOR
         /\ samples[k].degradation_factor = DEGRADATION_FLOOR

\* the factors k the sampled CAPEX is multiplied by
CapexFactors == {FDec(5, 10), FDec(13, 10), FInt(3)}

\* the LCOE one pass of the loop computes for a sample whose CAPEX per kWh is
\* multiplied by a factor, the other three inputs kept
ScaledLcoeOf ==
    [script_name \in Scripts, sample \in Samples, factor \in CapexFactors |->
        Only({LcoeFromCapex(IF script_name = "gsa" THEN CapexInitialSample(capex_per_kwh)
                            ELSE CapexInitial(capex_per_kwh), sample) :
                capex_per_kwh \in {FMul(sample.capex_per_kwh, factor)}})]

\* two samples differ at most in the CAPEX per kWh
SameButCapex(a, b) ==
    /\ a.discount_rate = b.discount_rate
    /\ a.opex_percentage = b.opex_percentage
    /\ a.degradation_factor = b.degradation_factor

\* C29: with discount rate, OPEX fraction and degradation factor held fixed,
\* multiplying the sampled CAPEX per kWh by k > 0 multiplies the LCOE by k
\* (to one part in 10^12), and the energy present value does not depend on
\* the CAPEX
LcoeProportionalToCapex ==
    script \in Scripts =>
        /\ \A k \in 1..mc_i : \A factor \in CapexFactors :
               CloseTo(ScaledLcoeOf[script, samples[k], factor],
                       FMul(factor, RecordedLcoe(k)))
        /\ \A j, k \in 1..mc_i :
               SameButCapex(samples[j], samples[k]) =>
                   /\ energy_npv[j] = energy_npv[k]
                   /\ CloseTo(FMul(RecordedLcoe(j), samples[k].capex_per_kwh),
                              FMul(RecordedLcoe(k), samples[j].capex_per_kwh))

\* C29 witness: one run has recorded the LCOE of the nominal sample and of
\* the sample with half its CAPEX per kWh, and the first is twice the second
HalfCapexHalfLcoe ==
    /\ mc_i = 2
    /\ Iterations = 2 => mc_pc = "done"
    /\ SameButCapex(samples[1], samples[2])
    /\ samples[1].capex_per_kwh = FMul(FInt(2), samples[2].capex_per_kwh)
    /\ RecordedLcoe(1) = FMul(FInt(2), RecordedLcoe(2))

\* the other copy of the loop
OtherScript == IF script = "gsa" THEN "monte_carlo" ELSE "gsa"

\* an element the loop appended to its list
IsAppended(v) == v # NoValue

\* the valid LCOEs a copy of the loop collects from the samples of this run:
\* Graphics.py drops the NaN rows of its column, the other script appends to
\* its list when the energy is positive
ResultsOf(script_name) ==
    IF script_name = "gsa"
    THEN DropNa(Vector([k \in 1..Iterations |->
                           IF EnergyValid(energy_npv[k])
                           THEN LcoeOfSampleAlone[script_name, samples[k]]
                           ELSE FNaN], Iterations))
    ELSE SelectSeq(Vector([k \in 1..Iterations |->
                              IF EnergyValid(energy_npv[k])
                              THEN LcoeOfSampleAlone[script_name, samples[k]]
                              ELSE NoValue], Iterations),
                   IsAppended)

\* C30: for the same samples the two copies of the loop compute the same
\* LCOEs, the same mean, median and 90th percentile, and the same maximum
\* CAPEX per kWh derived from the 90th percentile
LoopCopiesAgree ==
    script \in Scripts =>
        /\ \A k \in 1..mc_i :
               RecordedLcoe(k) = LcoeOfSampleAlone[OtherScript, samples[k]]
        /\ mc_pc \in {"stats", "invert", "done"} =>
               \A lcoe_other \in {ResultsOf(OtherScript)} :
                   /\ lcoe_results = lcoe_other
                   /\ mc_pc \in {"invert", "done"} =>
                          /\ stats.LCOE_MEAN = NpMean(lcoe_other)
                          /\ stats.LCOE_P50 = NpPercentile(lcoe_other, 50)
                          /\ stats.LCOE_P90 = NpPercentile(lcoe_other, 90)
                   /\ mc_pc = "done" =>
                          threshold.CAPEX_PER_KWH_P90 =
                              CapexPerKwh(CapexOfLcc(LccOfLcoe(NpPercentile(lcoe_other, 90))))

\* C30 witness: the run of Graphics.py is complete on samples of different
\* CAPEX, and its LCOEs and its CAPEX threshold are those the other script
\* computes from the same samples
GsaRunMatchesMonteCarlo ==
    /\ script = "gsa"
    /\ mc_pc = "done"
    /\ Iterations >= 2
    /\ samples[1].capex_per_kwh # samples[2].capex_per_kwh
    /\ lcoe_results = ResultsOf("monte_carlo")
    /\ threshold.CAPEX_PER_KWH_P90 =
           CapexPerKwh(CapexOfLcc(LccOfLcoe(NpPercentile(ResultsOf("monte_carlo"), 90))))

====
